---- MODULE Spec2Model ----
(***************************************************************************)
(* Model of the PII-redaction / audio-timestamp correlation engine of      *)
(* JStuBran/PIIREDACT: presidio_audio_redactor.AudioRedactor, the segment  *)
(* redactor of services/transcriber.py, the two job runners and the REST   *)
(* server.                                                                 *)
(*                                                                         *)
(* Strings are sequences of one-character strings.  Character positions    *)
(* and word indices are 0-based as in the Python source; a position p      *)
(* is the sequence element p + 1.  Times are in tenths of a second and     *)
(* scores in hundredths.                                                   *)
(***************************************************************************)
EXTENDS Integers, Sequences, FiniteSets, TLC

VARIABLES
    text,           \* _map_pii_to_timestamps: the full transcribed text
    words,          \* _map_pii_to_timestamps: word_timestamps
    pii_results,    \* _map_pii_to_timestamps: the analyzer's results
    mpc,            \* position in _map_pii_to_timestamps
    idx,            \* loop index of the word loop / of the entity loop
    char_pos,       \* the cursor of the word loop
    char_to_word,   \* character position -> word index
    findings        \* pii_with_timestamps

alignVars == <<text, words, pii_results, mpc, idx, char_pos, char_to_word, findings>>

VARIABLES
    detector,       \* the analyzer collaborator (what it recognizes)
    transcript,     \* what the transcription collaborator hears in the audio
    t_language,     \* transcribe_and_redact: language
    t_threshold,    \* transcribe_and_redact: score_threshold
    tpc,            \* position in transcribe_and_redact / redact
    original_text,  \* redact: original_text
    r_pii,          \* redact: pii_results
    anonymized,     \* redact: anonymized.text
    result,         \* redact: the returned dict (<<>> while there is none)
    seg_i,          \* _parse_segments: loop index
    parsed,         \* _parse_segments: parsed
    seg_found,      \* per parsed segment, the entities analyze returned on it
    seg_status,     \* per parsed segment, how its redaction ended
    analyze_calls,  \* the arguments of every call of the analyzer collaborator
    t_result        \* transcribe_and_redact: the returned dict (<<>> while none)

segVars == <<detector, transcript, t_language, t_threshold, tpc, original_text, r_pii,
             anonymized, result, seg_i, parsed, seg_found, seg_status, analyze_calls,
             t_result>>

VARIABLES
    runner,         \* which job runner processes the call
    call_type,      \* the call_type of the call record
    audio,          \* what the transcription collaborator hears in the job's audio
    recognizer,     \* the analyzer collaborator of the job's transcriber
    jpc,            \* position in the job runner
    transcription,  \* the runner's transcription dict (<<>> while there is none)
    db_status,      \* calls.status of the job
    db_transcription, \* calls.transcription_json of the job (<<>> while NULL)
    db_columns,     \* the other columns of the job's row that have been written
    decrypts,       \* read_file_secure can decrypt the uploaded file
    upload,         \* TRUE while the uploaded audio file exists at file_path
    temp_path,      \* temp_file_path: "none", "temp" (a new file) or "file_path"
    temp_exists,    \* TRUE while the temporary file with the decrypted audio exists
    deleted,        \* delete_file_secure(file_path) was called in this attempt
    retries,        \* self.request.retries of the task
    active_jobs     \* BackgroundProcessor._active_jobs

jobVars == <<runner, call_type, audio, recognizer, jpc, transcription, db_status,
             db_transcription, db_columns, decrypts, upload, temp_path, temp_exists,
             deleted, retries, active_jobs>>

VARIABLES
    request,        \* the POST /redact request: audio source, form and query parameters
    engine,         \* the presidio_audio_redactor package the server has imported
    heard,          \* what the transcription collaborator hears in the request's audio
    rest_detector,  \* the analyzer collaborator of the server's engine
    rpc,            \* position in the request handler
    temp_file,      \* TRUE while the request's temporary audio file exists
    response        \* the HTTP response (<<>> while there is none)

restVars == <<request, engine, heard, rest_detector, rpc, temp_file, response>>

VARIABLES
    self,           \* the AudioRedactor: whisper_model, analyzer, anonymizer
    recording,      \* what the transcription collaborator hears in the session's audio
    first_call,     \* the first call made on the engine, with its result (<<>>: none)
    last_call,      \* the latest call made on the engine, with its result (<<>>: none)
    ncalls          \* number of calls made on the engine

engineVars == <<self, recording, first_call, last_call, ncalls>>

VARIABLES
    redactor,       \* the AudioRedactor the concurrent calls share
    c_args,         \* per call of redact: its arguments
    cpc,            \* per call: the stage it is in
    c_local,        \* per call: the locals of redact (<<>>: not yet assigned)
    c_result,       \* per call: the returned dict (<<>> while there is none)
    c_log           \* per call: the stages entered, with the text handed to them

callVars == <<redactor, c_args, cpc, c_local, c_result, c_log>>

VARIABLES
    use_celery,     \* Config.USE_CELERY
    job_status,     \* calls.status of the job the start requests are for
    req_pc,         \* per POST /api/analyze request: its position in api_analyze
    req_seen,       \* per request: the status of the job record it has read
    req_active,     \* per request: _active_jobs of the BackgroundProcessor it made
    run_pc          \* per request: the processing run (thread or task) it started

startVars == <<use_celery, job_status, req_pc, req_seen, req_active, run_pc>>

VARIABLES
    now,            \* time.time(), in seconds
    rate_store,     \* _rate_limit_store: key -> list of timestamps
    accepted,       \* per key, the times of the calls that returned True
    rate_calls,     \* number of check_rate_limit calls made
    last_check      \* the latest call: key and returned value (<<>>: none)

rateVars == <<now, rate_store, accepted, rate_calls, last_check>>

vars == <<alignVars, segVars, jobVars, restVars, engineVars, callVars, startVars,
          rateVars>>

(***************************************************************************)
(* Bounds of the model                                                     *)
(***************************************************************************)
\* len(text) + len(word_timestamps) + len(pii_results) of a correlation input
MaxInput == 6
\* length of the text of a transcribed audio
MaxTranscriptLen == 3
\* length of the text of the audio of an engine session
MaxEngineTextLen == 2
\* number of calls made on the engine in a session
MaxCalls == 3
\* number of POST /api/analyze requests made for one job
MaxRequests == 2
\* number of check_rate_limit calls
MaxRateCalls == 7
\* length of the text of the audio of a concurrent call
MaxCallTextLen == 1
\* length of the text of the audio of a job or of a request
MaxAudioLen == 2
\* number of form and query parameters a request sets
MaxParams == 2

TextChars == {"a", "b", " "}
WordTexts == {<<"a">>, <<" ", "b">>, <<"a", "b">>, <<" ">>, <<"c">>}
EntityTypes == {"PERSON", "LOCATION"}

SeqsUpTo(S, n) == UNION {[1..k -> S] : k \in 0..n}

Min(S) == CHOOSE x \in S : \A y \in S : x <= y
Max(S) == CHOOSE x \in S : \A y \in S : x >= y

(***************************************************************************)
(* Python string primitives                                                *)
(***************************************************************************)
IsSpace(c) == c = " "

\* str.strip(): drop leading and trailing whitespace
RECURSIVE LStrip(_)
LStrip(s) == IF s # <<>> /\ IsSpace(Head(s)) THEN LStrip(Tail(s)) ELSE s

RECURSIVE RStrip(_)
RStrip(s) ==
    IF s # <<>> /\ IsSpace(s[Len(s)]) THEN RStrip(SubSeq(s, 1, Len(s) - 1)) ELSE s

Strip(s) == RStrip(LStrip(s))

\* s[a:b] for 0 <= a, b (Python clamps the slice to the string)
Slice(s, a, b) ==
    LET hi == IF b > Len(s) THEN Len(s) ELSE b
    IN  IF a >= hi THEN <<>> ELSE SubSeq(s, a + 1, hi)

\* sub occurs in s at 0-based position p
MatchAt(s, sub, p) ==
    /\ p >= 0
    /\ p + Len(sub) <= Len(s)
    /\ \A k \in 1..Len(sub) : s[p + k] = sub[k]

\* str.find(sub, start): the scan from start, -1 when nothing is found
RECURSIVE Find(_, _, _)
Find(s, sub, start) ==
    IF start + Len(sub) > Len(s) THEN -1
    ELSE IF MatchAt(s, sub, start) THEN start
    ELSE Find(s, sub, start + 1)

\* sub in s
Contains(s, sub) == Find(s, sub, 0) # -1

\* dict.get(key, default)
Get(dict, key, default) == IF key \in DOMAIN dict THEN dict[key] ELSE default

(***************************************************************************)
(* AudioRedactor._map_pii_to_timestamps                                    *)
(***************************************************************************)
\* (mutant) the search restarts at the beginning of the text
WordStartFromZero(t, word, cursor) == Find(t, Strip(word), 0)

\* (mutant) the search takes the last occurrence: text.rfind(word_stripped, char_pos)
WordStartLast(t, word, cursor) ==
    LET occ == {p \in cursor .. Len(t) : MatchAt(t, Strip(word), p)}
    IN  IF occ = {} THEN -1 ELSE Max(occ)

\* the search of one word: text.find(word_stripped, char_pos)
WordStart(t, word, cursor) == Find(t, Strip(word), cursor)

\* (mutant) the cursor is left at the start of the word that was found
IndexStepCursorAtStart(st, t, word, i) ==
    LET word_stripped == Strip(word)
        word_start    == WordStart(t, word, st.char_pos)
        span          == word_start .. (word_start + Len(word_stripped) - 1)
    IN  IF word_start # -1
        THEN [char_pos     |-> word_start,
              char_to_word |-> [c \in (DOMAIN st.char_to_word) \cup span |->
                                   IF c \in span THEN i ELSE st.char_to_word[c]]]
        ELSE st

\* body of the word loop: the index after word idx has been processed
IndexStep(st, t, word, i) ==
    LET word_stripped == Strip(word)
        word_start    == WordStart(t, word, st.char_pos)
        span          == word_start .. (word_start + Len(word_stripped) - 1)
    IN  IF word_start # -1
        THEN [char_pos     |-> word_start + Len(word_stripped),
              char_to_word |-> [c \in (DOMAIN st.char_to_word) \cup span |->
                                   IF c \in span THEN i ELSE st.char_to_word[c]]]
        ELSE st

\* (mutant) the scan stops one character early: range(start, end - 1)
MappedInShort(m, r) == {c \in r.start .. (r.end - 2) : c \in DOMAIN m}

\* the scan of one entity: the word of the first and of the last mapped character
MappedIn(m, r) == {c \in r.start .. (r.end - 1) : c \in DOMAIN m}

StartWordIdx(m, r) == m[Min(MappedIn(m, r))]

\* (mutant) end_word_idx is set once, with start_word_idx
EndWordIdxFirst(m, r) == m[Min(MappedIn(m, r))]

EndWordIdx(m, r) == m[Max(MappedIn(m, r))]

\* (mutant) the two times are taken from the wrong ends
PiiInfoSwapped(t, ws, m, r) ==
    LET base == [entity_type |-> r.entity_type,
                 text_start  |-> r.start,
                 text_end    |-> r.end,
                 score       |-> r.score,
                 text        |-> Slice(t, r.start, r.end)]
    IN  IF MappedIn(m, r) # {}
        THEN [entity_type |-> base.entity_type,
              text_start  |-> base.text_start,
              text_end    |-> base.text_end,
              score       |-> base.score,
              text        |-> base.text,
              audio_start |-> ws[EndWordIdx(m, r) + 1].end,
              audio_end   |-> ws[StartWordIdx(m, r) + 1].start]
        ELSE base

\* body of the entity loop: the finding appended for entity r
PiiInfo(t, ws, m, r) ==
    LET base == [entity_type |-> r.entity_type,
                 text_start  |-> r.start,
                 text_end    |-> r.end,
                 score       |-> r.score,
                 text        |-> Slice(t, r.start, r.end)]
    IN  IF MappedIn(m, r) # {}
        THEN [entity_type |-> base.entity_type,
              text_start  |-> base.text_start,
              text_end    |-> base.text_end,
              score       |-> base.score,
              text        |-> base.text,
              audio_start |-> ws[StartWordIdx(m, r) + 1].start,
              audio_end   |-> ws[EndWordIdx(m, r) + 1].end]
        ELSE base

\* (mutant) an entity without timestamps is dropped
AppendTimedOnly(fs, info) == IF "audio_start" \in DOMAIN info THEN Append(fs, info) ELSE fs

\* pii_with_timestamps.append(pii_info)
AppendFinding(fs, info) == Append(fs, info)

\* one iteration of "for idx, word_info in enumerate(word_timestamps)"
MapWord ==
    /\ mpc = "words"
    /\ idx < Len(words)
    /\ LET st == IndexStep([char_pos |-> char_pos, char_to_word |-> char_to_word],
                           text, words[idx + 1].word, idx)
       IN  /\ char_pos' = st.char_pos
           /\ char_to_word' = st.char_to_word
    /\ idx' = idx + 1
    /\ UNCHANGED <<text, words, pii_results, mpc, findings>>
    /\ UNCHANGED <<segVars, jobVars, restVars, engineVars, callVars,
                 startVars, rateVars>>

\* the word loop is exhausted: the entity loop starts
WordsDone ==
    /\ mpc = "words"
    /\ idx = Len(words)
    /\ mpc' = "entities"
    /\ idx' = 0
    /\ UNCHANGED <<text, words, pii_results, char_pos, char_to_word, findings>>
    /\ UNCHANGED <<segVars, jobVars, restVars, engineVars, callVars,
                 startVars, rateVars>>

\* one iteration of "for result in pii_results"
MapEntity ==
    /\ mpc = "entities"
    /\ idx < Len(pii_results)
    /\ findings' = AppendFinding(findings,
                                 PiiInfo(text, words, char_to_word, pii_results[idx + 1]))
    /\ idx' = idx + 1
    /\ UNCHANGED <<text, words, pii_results, mpc, char_pos, char_to_word>>
    /\ UNCHANGED <<segVars, jobVars, restVars, engineVars, callVars,
                 startVars, rateVars>>

\* return pii_with_timestamps
MapReturn ==
    /\ mpc = "entities"
    /\ idx = Len(pii_results)
    /\ mpc' = "returned"
    /\ UNCHANGED <<text, words, pii_results, idx, char_pos, char_to_word, findings>>
    /\ UNCHANGED <<segVars, jobVars, restVars, engineVars, callVars,
                 startVars, rateVars>>

\* no _map_pii_to_timestamps call is modelled
AlignIdle ==
    /\ text = <<>>
    /\ words = <<>>
    /\ pii_results = <<>>
    /\ mpc = "idle"
    /\ idx = 0
    /\ char_pos = 0
    /\ char_to_word = <<>>
    /\ findings = <<>>

\* no transcribe_and_redact call is modelled
SegIdle ==
    /\ detector = [person |-> "none", location |-> FALSE]
    /\ transcript = [text |-> <<>>, segments |-> <<>>]
    /\ t_language = "en"
    /\ t_threshold = 40
    /\ tpc = "idle"
    /\ original_text = <<>>
    /\ r_pii = <<>>
    /\ anonymized = <<>>
    /\ result = <<>>
    /\ seg_i = 0
    /\ parsed = <<>>
    /\ seg_found = <<>>
    /\ seg_status = <<>>
    /\ analyze_calls = <<>>
    /\ t_result = <<>>

\* no job is modelled
JobIdle ==
    /\ runner = "none"
    /\ call_type = "real"
    /\ audio = [text |-> <<>>, segments |-> <<>>]
    /\ recognizer = [person |-> "none", location |-> FALSE]
    /\ jpc = "idle"
    /\ transcription = <<>>
    /\ db_status = "pending"
    /\ db_transcription = <<>>
    /\ db_columns = {}
    /\ decrypts = TRUE
    /\ upload = FALSE
    /\ temp_path = "none"
    /\ temp_exists = FALSE
    /\ deleted = FALSE
    /\ retries = 0
    /\ active_jobs = {}

\* the parameters of a request that sets none
NoParams == [language |-> <<>>, entities |-> <<>>, score_threshold |-> <<>>,
             return_timestamps |-> <<>>]

\* no request is modelled
RestIdle ==
    /\ request = [path |-> "/redact", audio |-> "none", form |-> NoParams,
                 args |-> NoParams]
    /\ engine = "timestamps"
    /\ heard = [text |-> <<>>, segments |-> <<>>]
    /\ rest_detector = [person |-> "none", location |-> FALSE]
    /\ rpc = "idle"
    /\ temp_file = FALSE
    /\ response = <<>>

\* the fields AudioRedactor.__init__ sets, with analyzer profile d
NewRedactor(d) == [whisper_model |-> "base", analyzer |-> d, anonymizer |-> "default"]

\* no engine session is modelled
EngineIdle ==
    /\ self = NewRedactor([person |-> "none", location |-> FALSE])
    /\ recording = [text |-> <<>>, segments |-> <<>>]
    /\ first_call = <<>>
    /\ last_call = <<>>
    /\ ncalls = 0

\* the concurrent calls of redact
Calls == {1, 2}

\* the locals of a call of redact that has assigned none
NoLocals == [transcription |-> <<>>, original_text |-> <<>>, pii_results |-> <<>>,
             anonymized |-> <<>>]

\* no concurrent calls are modelled
CallsIdle ==
    /\ redactor = NewRedactor([person |-> "none", location |-> FALSE])
    /\ c_args = [c \in Calls |-> [audio |-> [text |-> <<>>, segments |-> <<>>],
                                  language |-> "en", entities |-> <<>>,
                                  score_threshold |-> 0, return_timestamps |-> FALSE]]
    /\ cpc = [c \in Calls |-> "idle"]
    /\ c_local = [c \in Calls |-> NoLocals]
    /\ c_result = [c \in Calls |-> <<>>]
    /\ c_log = [c \in Calls |-> <<>>]

\* the POST /api/analyze requests made for the job
Requesters == 1..MaxRequests

\* no start request is modelled
StartIdle ==
    /\ use_celery = FALSE
    /\ job_status = "pending"
    /\ req_pc = [r \in Requesters |-> "idle"]
    /\ req_seen = [r \in Requesters |-> "none"]
    /\ req_active = [r \in Requesters |-> {}]
    /\ run_pc = [r \in Requesters |-> "none"]

\* the keys check_rate_limit is called with
RateKeys == {"login:1", "login:2"}

\* no check_rate_limit call is modelled
RateIdle ==
    /\ now = 0
    /\ rate_store = [k \in RateKeys |-> <<>>]
    /\ accepted = [k \in RateKeys |-> <<>>]
    /\ rate_calls = 0
    /\ last_check = <<>>

\* word i of a word list: its text and its times
WordInfo(w, i) == [word |-> w, start |-> 3 * i, end |-> 3 * i + 2]

Spans(t) == {s \in (0..Len(t)) \X (0..Len(t)) : s[1] < s[2]}

\* a RecognizerResult
Result(type, s, sc) == [entity_type |-> type, start |-> s[1], end |-> s[2], score |-> sc]

EntityOn(s) == IF s[1] = 0 THEN Result("PERSON", s, 85) ELSE Result("LOCATION", s, 40)

\* the alignment example of the documentation
HelloText ==
    <<"H", "e", "l", "l", "o", " ", "J", "o", "h", "n", " ", "S", "m", "i", "t", "h">>
HelloWords ==
    <<[word |-> <<"H", "e", "l", "l", "o">>, start |-> 0, end |-> 4],
      [word |-> <<"J", "o", "h", "n">>, start |-> 4, end |-> 7],
      [word |-> <<"S", "m", "i", "t", "h">>, start |-> 7, end |-> 10]>>
HelloEntities == <<Result("PERSON", <<6, 16>>, 85)>>

\* of a correlation input, at most half is words and at most a third entities
MaxWords == MaxInput \div 2
MaxEntities == MaxInput \div 3

AlignInputs ==
    \/ /\ text = HelloText
       /\ words = HelloWords
       /\ pii_results = HelloEntities
    \/ /\ text \in SeqsUpTo(TextChars, MaxInput)
       /\ \E ws \in SeqsUpTo(WordTexts, Min({MaxInput - Len(text), MaxWords})) :
             words = [i \in 1..Len(ws) |-> WordInfo(ws[i], i - 1)]
       /\ pii_results \in SeqsUpTo({EntityOn(s) : s \in Spans(text)},
                                   Min({MaxInput - Len(text) - Len(words), MaxEntities}))

AlignInit ==
    /\ AlignInputs
    /\ mpc = "words"
    /\ idx = 0
    /\ char_pos = 0
    /\ char_to_word = <<>>
    /\ findings = <<>>
    /\ SegIdle
    /\ JobIdle
    /\ RestIdle
    /\ EngineIdle
    /\ CallsIdle
    /\ StartIdle
    /\ RateIdle

AlignNext == MapWord \/ WordsDone \/ MapEntity \/ MapReturn

SpecAlign == AlignInit /\ [][AlignNext]_vars

(***************************************************************************)
(* Properties of _map_pii_to_timestamps                                    *)
(***************************************************************************)
Range(f) == {f[x] : x \in DOMAIN f}

\* the positions at or after the cursor where the trimmed text of word w occurs
OccurrencesFrom(w, cursor) ==
    {p \in cursor .. Len(text) :
        /\ p + Len(Strip(w)) <= Len(text)
        /\ SubSeq(text, p + 1, p + Len(Strip(w))) = Strip(w)}

GreedyWordStep ==
    MapWord =>
        LET w   == words[idx + 1].word
            len == Len(Strip(w))
            occ == OccurrencesFrom(w, char_pos)
        IN  IF occ # {}
            THEN LET p == Min(occ)
                 IN  /\ char_pos' = p + len
                     /\ DOMAIN char_to_word' = (DOMAIN char_to_word) \cup (p .. (p + len - 1))
                     /\ \A c \in p .. (p + len - 1) : char_to_word'[c] = idx
                     /\ \A c \in (DOMAIN char_to_word) \ (p .. (p + len - 1)) :
                            char_to_word'[c] = char_to_word[c]
            ELSE /\ char_pos' = char_pos
                 /\ char_to_word' = char_to_word

\* C7: the index is built greedily: the cursor starts at 0; a word whose trimmed
\* text occurs at or after the cursor takes its first such occurrence p, maps
\* every character of [p, p+len) to its index and moves the cursor to p+len; a
\* word that does not occur at or after the cursor maps nothing and leaves the
\* cursor where it is.
C7_GreedyIndex ==
    /\ [](mpc = "words" /\ idx = 0 => char_pos = 0 /\ DOMAIN char_to_word = {})
    /\ [][GreedyWordStep]_vars

\* a word was skipped, and a later word was found beyond the cursor, over a gap
C7_Witness ==
    /\ mpc = "words"
    /\ idx = 2
    /\ Range(char_to_word) = {1}
    /\ 0 \notin DOMAIN char_to_word
    /\ char_pos = Len(text)

\* the word indices mapped within the span of entity r
WordsWithin(r) == {char_to_word[c] : c \in (r.start .. (r.end - 1)) \cap DOMAIN char_to_word}

\* C8: a finding of an entity with a mapped character carries the start time of
\* the minimum word index mapped within the span and the end time of the maximum
\* one; the documented example yields 0.4 and 1.0.
C8_EntityTimestamps ==
    /\ \A k \in 1..Len(findings) :
          WordsWithin(pii_results[k]) # {} =>
              /\ "audio_start" \in DOMAIN findings[k]
              /\ "audio_end" \in DOMAIN findings[k]
              /\ findings[k].audio_start = words[Min(WordsWithin(pii_results[k])) + 1].start
              /\ findings[k].audio_end = words[Max(WordsWithin(pii_results[k])) + 1].end
    /\ (text = HelloText /\ mpc = "returned") =>
          /\ findings[1].audio_start = 4
          /\ findings[1].audio_end = 10

\* an entity spanning two different words has got its timestamps
C8_Witness ==
    /\ mpc = "returned"
    /\ \E k \in 1..Len(findings) :
          /\ Cardinality(WordsWithin(pii_results[k])) >= 2
          /\ findings[k].audio_start < findings[k].audio_end

\* C9: a finding carries audio_start exactly when it carries audio_end, and
\* exactly when a character of its span is mapped to a word; an entity without a
\* mapped character is still returned; with no words no finding carries a time.
C9_GracefulDegradation ==
    /\ \A k \in 1..Len(findings) :
          /\ "audio_start" \in DOMAIN findings[k] <=> "audio_end" \in DOMAIN findings[k]
          /\ "audio_start" \in DOMAIN findings[k] <=>
                 \E c \in pii_results[k].start .. (pii_results[k].end - 1) :
                     c \in DOMAIN char_to_word
          /\ words = <<>> => "audio_start" \notin DOMAIN findings[k]
    /\ mpc = "returned" => Len(findings) = Len(pii_results)

\* one entity without and one with timestamps have been returned
C9_Witness ==
    /\ mpc = "returned"
    /\ \E j, k \in 1..Len(findings) :
          /\ "audio_start" \notin DOMAIN findings[j]
          /\ "audio_start" \in DOMAIN findings[k]

\* C10: one finding per entity, in the order of the entities, each with its
\* entity's type, span and score.
C10_OneFindingPerEntity ==
    /\ Len(findings) <= Len(pii_results)
    /\ mpc = "entities" => Len(findings) = idx
    /\ mpc = "returned" => Len(findings) = Len(pii_results)
    /\ \A k \in 1..Len(findings) :
          /\ findings[k].entity_type = pii_results[k].entity_type
          /\ findings[k].text_start = pii_results[k].start
          /\ findings[k].text_end = pii_results[k].end
          /\ findings[k].score = pii_results[k].score

\* two different entities, one of them without a mapped character, were returned
C10_Witness ==
    /\ mpc = "returned"
    /\ Len(findings) = 2
    /\ pii_results[1] # pii_results[2]
    /\ "audio_start" \notin DOMAIN findings[1]

\* the positions where a whitespace-separated token of the text starts
TokenStarts ==
    {p \in 0 .. (Len(text) - 1) :
        ~IsSpace(text[p + 1]) /\ (p = 0 \/ IsSpace(text[p]))}

\* word k of the word list is the k-th token of the transcript
HasToken(k) == k < Cardinality(TokenStarts)

\* where word k was spoken: the start of the k-th token of the text
SpokenAt(k) == CHOOSE p \in TokenStarts : Cardinality({q \in TokenStarts : q < p}) = k

\* the position word k is mapped to
MappedAt(k) == Min({c \in DOMAIN char_to_word : char_to_word[c] = k})

\* the step maps a word before or at the token it was spoken at, whenever
\* its text stands at that token and the cursor has not passed it
NeverBehindItsToken ==
    MapWord =>
        LET w == Strip(words[idx + 1].word)
        IN  /\ OccurrencesFrom(words[idx + 1].word, char_pos) = {} => char_pos' = char_pos
            /\ (/\ w # <<>>
                /\ HasToken(idx)
                /\ SpokenAt(idx) >= char_pos
                /\ MatchAt(text, w, SpokenAt(idx)))
               => /\ char_pos' - Len(w) <= SpokenAt(idx)
                  /\ char_pos' - Len(w) = Min(OccurrencesFrom(words[idx + 1].word, char_pos))

\* C22: the scan does not backtrack: a skipped word leaves the cursor where it
\* is, and a later word is mapped to the first occurrence of its text at or after
\* that cursor, which can lie before the token it was spoken at (never behind
\* it), so that an entity on the earlier occurrence receives the interval of the
\* later word.
C22_NonBacktracking == [][NeverBehindItsToken]_vars

\* word j was skipped, the later word k stands at its own token but was mapped
\* to an earlier occurrence, and the entity there carries the times of word k
C22_Witness ==
    /\ mpc = "returned"
    /\ \E j, k \in 0 .. (Len(words) - 1) :
          /\ j < k
          /\ OccurrencesFrom(words[j + 1].word, 0) = {}
          /\ k \in Range(char_to_word)
          /\ HasToken(k)
          /\ MatchAt(text, Strip(words[k + 1].word), SpokenAt(k))
          /\ MappedAt(k) < SpokenAt(k)
          /\ \E f \in 1..Len(findings) :
                /\ findings[f].text_start = MappedAt(k)
                /\ "audio_start" \in DOMAIN findings[f]
                /\ findings[f].audio_start = words[k + 1].start
                /\ findings[f].audio_start # words[j + 1].start

\* the characters mapped to word k
CharsOf(k) == {c \in DOMAIN char_to_word : char_to_word[c] = k}

IndexInvariant ==
    /\ 0 <= char_pos /\ char_pos <= Len(text)
    /\ DOMAIN char_to_word \subseteq 0 .. (char_pos - 1)
    /\ \A j, k \in Range(char_to_word) :
          j < k => \A c \in CharsOf(j), d \in CharsOf(k) : c < d
    /\ \A k \in Range(char_to_word) :
          LET p   == Min(CharsOf(k))
              len == Len(Strip(words[k + 1].word))
          IN  /\ CharsOf(k) = p .. (p + len - 1)
              /\ Slice(text, p, p + len) = Strip(words[k + 1].word)

\* a step never moves the cursor back and never maps a mapped character again
IndexGrows ==
    /\ char_pos' >= char_pos
    /\ \A c \in DOMAIN char_to_word :
          c \in DOMAIN char_to_word' /\ char_to_word'[c] = char_to_word[c]

\* C27: the cursor never decreases and never exceeds len(text); a character is
\* mapped to one word and never to another one later; the ranges of two mapped
\* words are disjoint and the word with the higher index lies at strictly higher
\* positions; the range of a mapped word is [p, p+len) with text[p:p+len] the
\* word's trimmed text.
C27_IndexInvariants == []IndexInvariant /\ [][IndexGrows]_vars

\* two words are mapped, apart from each other, one of them after trimming, and
\* a third word was skipped
C27_Witness ==
    /\ mpc = "entities"
    /\ Cardinality(Range(char_to_word)) = 2
    /\ Len(words) = 3
    /\ \E c \in 0 .. (char_pos - 1) : c \notin DOMAIN char_to_word
    /\ \E k \in Range(char_to_word) : Strip(words[k + 1].word) # words[k + 1].word

\* every word has start <= end and the times do not decrease along the list
WellTimed ==
    /\ \A i \in 1..Len(words) : words[i].start <= words[i].end
    /\ \A i, j \in 1..Len(words) :
          i < j => words[i].start <= words[j].start /\ words[i].end <= words[j].end

\* C28: with well-timed words, a finding with timestamps has audio_start <=
\* audio_end, and of two findings with timestamps whose entities e1, e2 satisfy
\* e1.end <= e2.start, the first has the earlier or the same audio_start.
C28_WellFormedIntervals ==
    WellTimed =>
        \A f, g \in 1..Len(findings) :
            "audio_start" \in DOMAIN findings[f] =>
                /\ findings[f].audio_start <= findings[f].audio_end
                /\ ("audio_start" \in DOMAIN findings[g]
                        /\ findings[f].text_end <= findings[g].text_start)
                   => findings[f].audio_start <= findings[g].audio_start

\* two entities one after the other in the text, on different words, both timed
C28_Witness ==
    /\ mpc = "returned"
    /\ WellTimed
    /\ \E f, g \in 1..Len(findings) :
          /\ "audio_start" \in DOMAIN findings[f]
          /\ "audio_start" \in DOMAIN findings[g]
          /\ findings[f].text_end <= findings[g].text_start
          /\ findings[f].audio_start < findings[g].audio_start


(***************************************************************************)
(* The collaborators: transcription, PII detector, anonymizer              *)
(***************************************************************************)
Languages == {"en", "es"}
Thresholds == {40, 90}
Detectors == [person : {"all", "first", "none"}, location : BOOLEAN]

\* seconds of audio per character of transcript, in tenths of a second
CharTime == 6 * 10

\* the tokens of a segment text: each word with the whitespace before it
RECURSIVE Tokens(_, _, _)
Tokens(s, cur, at) ==
    IF s = <<>>
    THEN IF Strip(cur) = <<>> THEN <<>>
         ELSE <<[word |-> cur, start |-> CharTime * at,
                 end |-> CharTime * (at + Len(cur))]>>
    ELSE IF IsSpace(Head(s)) /\ Strip(cur) # <<>>
    THEN <<[word |-> cur, start |-> CharTime * at, end |-> CharTime * (at + Len(cur))]>>
         \o Tokens(Tail(s), <<Head(s)>>, at + Len(cur))
    ELSE Tokens(Tail(s), Append(cur, Head(s)), at)

\* the segments of text t cut after the positions of cuts, from position at on
RECURSIVE SegmentsOf(_, _, _, _)
SegmentsOf(t, cuts, at, id) ==
    IF at >= Len(t) THEN <<>>
    ELSE LET later == {c \in cuts : c > at}
             stop  == IF later = {} THEN Len(t) ELSE Min(later)
             seg   == Slice(t, at, stop)
         IN  <<[id |-> id, start |-> CharTime * at, end |-> CharTime * stop,
                text |-> seg, words |-> Tokens(seg, <<>>, at)]>>
             \o SegmentsOf(t, cuts, stop, id + 1)

\* a transcription result: 'text' and 'segments' (with 'words')
Transcription(t, cuts) == [text |-> t, segments |-> SegmentsOf(t, cuts, 0, 0)]

Transcripts ==
    {Transcription(t, cuts) :
        <<t, cuts>> \in {tc \in SeqsUpTo(TextChars, MaxTranscriptLen)
                                   \X SUBSET (1..(MaxTranscriptLen - 1)) :
                            tc[2] \subseteq 1..(Len(tc[1]) - 1)}}

\* the detector's scan of text t from position p on: a PERSON on "a" (every one,
\* or only the first one), a LOCATION on "b"
RECURSIVE Recognize(_, _, _, _)
Recognize(t, d, p, seen) ==
    IF p >= Len(t) THEN <<>>
    ELSE LET c   == t[p + 1]
             hit == IF c = "a" /\ (d.person = "all" \/ (d.person = "first" /\ ~seen))
                    THEN <<Result("PERSON", <<p, p + 1>>, 85)>>
                    ELSE IF c = "b" /\ d.location
                    THEN <<Result("LOCATION", <<p, p + 1>>, Get(d, "location_score", 40))>>
                    ELSE <<>>
         IN  hit \o Recognize(t, d, p + 1, seen \/ c = "a")

\* AnalyzerEngine.analyze: the recognized entities of the requested types with a
\* score of at least score_threshold (entities: <<>> is None, <<S>> a filter)
AnalyzerEngineAnalyze(d, t, language, entities, score_threshold) ==
    SelectSeq(Recognize(t, d, 0, FALSE),
              LAMBDA r : /\ r.score >= score_threshold
                         /\ entities = <<>> \/ r.entity_type \in entities[1])

TypeChars(type) ==
    IF type = "PERSON" THEN <<"P", "E", "R", "S", "O", "N">>
    ELSE <<"L", "O", "C", "A", "T", "I", "O", "N">>

Placeholder(type) == <<"<">> \o TypeChars(type) \o <<">">>

\* AnonymizerEngine.anonymize: every span replaced by the placeholder of its type
\* (rs sorted by start, spans disjoint; replaced from the last to the first)
RECURSIVE AnonymizerEngineAnonymize(_, _)
AnonymizerEngineAnonymize(t, rs) ==
    IF rs = <<>> THEN t
    ELSE LET r == rs[Len(rs)]
         IN  AnonymizerEngineAnonymize(
                 Slice(t, 0, r.start) \o Placeholder(r.entity_type) \o Slice(t, r.end, Len(t)),
                 SubSeq(rs, 1, Len(rs) - 1))

(***************************************************************************)
(* AudioRedactor: analyze, anonymize, _extract_word_timestamps, redact     *)
(***************************************************************************)
\* (mutant) the entities filter and the language are not handed on
AnalyzeCallDefaults(t, language, entities, score_threshold) ==
    [text |-> t, language |-> "en", entities |-> <<>>,
     score_threshold |-> score_threshold]

\* the arguments AudioRedactor.analyze hands to the analyzer
AnalyzeCall(t, language, entities, score_threshold) ==
    [text |-> t, language |-> language, entities |-> entities,
     score_threshold |-> score_threshold]

\* (mutant) the results are appended to a list the engine keeps over the calls
AnalyzeAccumulating(d, t, language, entities, score_threshold) ==
    (IF last_call # <<>> /\ last_call[1].op = "analyze"
     THEN last_call[1].result ELSE <<>>)
    \o AnalyzerEngineAnalyze(d, t, language, entities, score_threshold)

\* (mutant) score_threshold is not handed to the analyzer
AnalyzeNoThreshold(d, t, language, entities, score_threshold) ==
    AnalyzerEngineAnalyze(d, t, language, entities, 0)

\* (mutant) the results are cut to those of a score of at most score_threshold
AnalyzeAtMost(d, t, language, entities, score_threshold) ==
    SelectSeq(AnalyzerEngineAnalyze(d, t, language, entities, 0),
              LAMBDA r : r.score <= score_threshold)

\* AudioRedactor.analyze: the analyzer's results, returned as they are
Analyze(d, t, language, entities, score_threshold) ==
    LET call == AnalyzeCall(t, language, entities, score_threshold)
    IN  AnalyzerEngineAnalyze(d, call.text, call.language, call.entities,
                              call.score_threshold)

\* (mutant) nothing is returned when there is nothing to replace
AnonymizeNothingFound(t, analyzer_results) ==
    IF analyzer_results = <<>> THEN <<>>
    ELSE AnonymizerEngineAnonymize(t, analyzer_results)

\* AudioRedactor.anonymize(...).text
Anonymize(t, analyzer_results) == AnonymizerEngineAnonymize(t, analyzer_results)

\* _extract_word_timestamps: the dict appended for one word_info
WordEntry(word_info) ==
    [word  |-> Get(word_info, "word", <<>>),
     start |-> Get(word_info, "start", 0),
     end   |-> Get(word_info, "end", 0)]

\* _extract_word_timestamps: the entries of one segment
SegmentWords(segment) ==
    LET ws == Get(segment, "words", <<>>)
    IN  [k \in 1..Len(ws) |-> WordEntry(ws[k])]

\* (mutant) every segment's words are put before the words collected so far
RECURSIVE ExtractWordTimestampsPrepending(_)
ExtractWordTimestampsPrepending(segments) ==
    IF segments = <<>> THEN <<>>
    ELSE ExtractWordTimestampsPrepending(Tail(segments)) \o SegmentWords(Head(segments))

\* AudioRedactor._extract_word_timestamps
RECURSIVE ExtractWordTimestamps(_)
ExtractWordTimestamps(segments) ==
    IF segments = <<>> THEN <<>>
    ELSE SegmentWords(Head(segments)) \o ExtractWordTimestamps(Tail(segments))

\* the word loop of _map_pii_to_timestamps over the words i+1, i+2, ...
RECURSIVE BuildIndex(_, _, _, _)
BuildIndex(st, t, ws, i) ==
    IF i >= Len(ws) THEN st
    ELSE BuildIndex(IndexStep(st, t, ws[i + 1].word, i), t, ws, i + 1)

\* AudioRedactor._map_pii_to_timestamps
MapPiiToTimestamps(t, rs, ws) ==
    LET m == BuildIndex([char_pos |-> 0, char_to_word |-> <<>>], t, ws, 0).char_to_word
    IN  [k \in 1..Len(rs) |-> PiiInfo(t, ws, m, rs[k])]

\* (mutant) the end of a span is taken inclusive and made exclusive once more
PlainFindingsEndShifted(t, rs) ==
    [k \in 1..Len(rs) |->
        [entity_type |-> rs[k].entity_type, text_start |-> rs[k].start,
         text_end |-> rs[k].end + 1, score |-> rs[k].score,
         text |-> Slice(t, rs[k].start, rs[k].end + 1)]]

\* the findings of redact without timestamps
PlainFindings(t, rs) ==
    [k \in 1..Len(rs) |->
        [entity_type |-> rs[k].entity_type, text_start |-> rs[k].start,
         text_end |-> rs[k].end, score |-> rs[k].score,
         text |-> Slice(t, rs[k].start, rs[k].end)]]

\* AudioRedactor.redact: the response built from the stages' results
RedactResult(tr, rs, anonymized_text, return_timestamps) ==
    [original_text |-> tr.text,
     redacted_text |-> anonymized_text,
     segments      |-> tr.segments,
     pii_findings  |->
         IF return_timestamps
         THEN MapPiiToTimestamps(tr.text, rs,
                                 ExtractWordTimestamps(tr.segments))
         ELSE PlainFindings(tr.text, rs)]


\* AudioRedactor.transcribe(audio_path, word_timestamps)
WhisperTranscribe(tr, word_timestamps) ==
    IF word_timestamps THEN tr
    ELSE [tr EXCEPT !.segments =
             [i \in 1..Len(tr.segments) |->
                 [k \in (DOMAIN tr.segments[i]) \ {"words"} |-> tr.segments[i][k]]]]

\* AudioRedactor.redact(audio_path, language, entities, score_threshold, return_timestamps)
Redact(d, tr, language, entities, score_threshold, return_timestamps) ==
    LET transcribed == WhisperTranscribe(tr, return_timestamps)
        rs          == Analyze(d, transcribed.text, language, entities, score_threshold)
    IN  RedactResult(transcribed, rs, Anonymize(transcribed.text, rs), return_timestamps)

(***************************************************************************)
(* TranscriberService: transcribe_and_redact, _parse_segments,             *)
(* _redact_segment_text                                                    *)
(***************************************************************************)
\* the defaults of transcribe_and_redact
DefaultLanguage == "en"
DefaultThreshold == 40

\* the policy _redact_segment_text hands to analyze
SegmentLanguage == "en"
SegmentThreshold == 40

\* (mutant) a failed redaction returns the text it was given
RedactionFailedOpen(t) == t

\* _redact_segment_text: what the except branch returns
RedactionFailed(t) == <<>>

\* how the redaction of one segment may end
SegmentOutcomes == {"ok", "analyze_raised", "anonymize_raised"}

\* _redact_segment_text: pii_results = self.redactor.analyze(text, "en", 0.4)
SegmentAnalyze(d, t) == Analyze(d, t, SegmentLanguage, <<>>, SegmentThreshold)

\* _redact_segment_text(text)
RedactSegmentText(d, t, outcome) ==
    IF t = <<>> THEN <<>>
    ELSE IF outcome = "ok" THEN Anonymize(t, SegmentAnalyze(d, t))
    ELSE RedactionFailed(t)

\* _parse_segments: the text of the parsed segment
SegmentText(d, seg, outcome) ==
    LET seg_text == Strip(seg.text)
    IN  IF seg_text # <<>> THEN RedactSegmentText(d, seg_text, outcome) ELSE <<>>

\* one entry of parsed
ParsedSegment(i, seg, redacted) ==
    [id |-> i, start |-> seg.start, end |-> seg.end, text |-> redacted,
     speaker |-> IF i % 2 = 0 THEN "spk_0" ELSE "spk_1"]

\* _parse_segments, the redaction of segment i ending as outcomes[i]
ParseSegmentsOf(d, segments, outcomes) ==
    [i \in 1..Len(segments) |->
        ParsedSegment(i - 1, segments[i], SegmentText(d, segments[i], outcomes[i]))]

\* duration_sec: the end of the last segment
DurationSec(segments) == IF segments = <<>> THEN 0 ELSE segments[Len(segments)].end

\* round(duration_sec / 60, 1), in tenths of a minute (the model's segments end
\* on multiples of 6 s, where the quotient is exact)
DurationMin(duration_sec) == (duration_sec + 30) \div 60

\* the dict transcribe_and_redact returns
TranscribeResult(res, parsed_segments) ==
    [original_text |-> res.original_text,
     redacted_text |-> res.redacted_text,
     pii_findings  |-> res.pii_findings,
     segments      |-> parsed_segments,
     duration_sec  |-> DurationSec(res.segments),
     duration_min  |-> DurationMin(DurationSec(res.segments))]

Fail == tpc' = "failed"

\* redact: transcription = self.transcribe(audio_path, word_timestamps=True)
Transcribe ==
    /\ tpc = "transcribing"
    /\ \/ /\ Fail
          /\ UNCHANGED original_text
       \/ /\ original_text' = transcript.text
          /\ tpc' = "analyzing"
    /\ UNCHANGED <<detector, transcript, t_language, t_threshold, r_pii, anonymized,
                   result, seg_i, parsed, seg_found, seg_status, analyze_calls, t_result>>
    /\ UNCHANGED <<alignVars, jobVars, restVars, engineVars, callVars,
                 startVars, rateVars>>

\* redact: pii_results = self.analyze(original_text, language, entities, score_threshold)
AnalyzeText ==
    /\ tpc = "analyzing"
    /\ analyze_calls' = Append(analyze_calls,
                               AnalyzeCall(original_text, t_language, <<>>, t_threshold))
    /\ \/ /\ Fail
          /\ UNCHANGED r_pii
       \/ /\ r_pii' = Analyze(detector, original_text, t_language, <<>>, t_threshold)
          /\ tpc' = "anonymizing"
    /\ UNCHANGED <<detector, transcript, t_language, t_threshold, original_text, anonymized,
                   result, seg_i, parsed, seg_found, seg_status, t_result>>
    /\ UNCHANGED <<alignVars, jobVars, restVars, engineVars, callVars,
                 startVars, rateVars>>

\* redact: anonymized = self.anonymize(original_text, pii_results)
AnonymizeText ==
    /\ tpc = "anonymizing"
    /\ \/ /\ Fail
          /\ UNCHANGED anonymized
       \/ /\ anonymized' = Anonymize(original_text, r_pii)
          /\ tpc' = "correlating"
    /\ UNCHANGED <<detector, transcript, t_language, t_threshold, original_text, r_pii,
                   result, seg_i, parsed, seg_found, seg_status, analyze_calls, t_result>>
    /\ UNCHANGED <<alignVars, jobVars, restVars, engineVars, callVars,
                 startVars, rateVars>>

\* redact: the response with the findings mapped to timestamps, returned
Correlate ==
    /\ tpc = "correlating"
    /\ result' = <<RedactResult(transcript, r_pii, anonymized, TRUE)>>
    /\ tpc' = "complete"
    /\ UNCHANGED <<detector, transcript, t_language, t_threshold, original_text, r_pii,
                   anonymized, seg_i, parsed, seg_found, seg_status, analyze_calls, t_result>>
    /\ UNCHANGED <<alignVars, jobVars, restVars, engineVars, callVars,
                 startVars, rateVars>>

\* transcribe_and_redact: redact has returned, _parse_segments starts
ParseSegments ==
    /\ tpc = "complete"
    /\ seg_i' = 0
    /\ parsed' = <<>>
    /\ tpc' = "segments"
    /\ UNCHANGED <<detector, transcript, t_language, t_threshold, original_text, r_pii,
                   anonymized, result, seg_found, seg_status, analyze_calls, t_result>>
    /\ UNCHANGED <<alignVars, jobVars, restVars, engineVars, callVars,
                 startVars, rateVars>>

\* _parse_segments: one iteration of the loop, with _redact_segment_text
ParseSegment ==
    /\ tpc = "segments"
    /\ seg_i < Len(result[1].segments)
    /\ \E outcome \in SegmentOutcomes :
          LET seg      == result[1].segments[seg_i + 1]
              seg_text == Strip(seg.text)
          IN  /\ parsed' = Append(parsed, ParsedSegment(seg_i, seg,
                                                        SegmentText(detector, seg, outcome)))
              /\ seg_found' = Append(seg_found,
                                     IF seg_text # <<>> /\ outcome # "analyze_raised"
                                     THEN SegmentAnalyze(detector, seg_text)
                                     ELSE <<>>)
              /\ seg_status' = Append(seg_status,
                                      IF seg_text = <<>> THEN "empty" ELSE outcome)
              /\ analyze_calls' =
                     IF seg_text = <<>> THEN analyze_calls
                     ELSE Append(analyze_calls,
                                 AnalyzeCall(seg_text, SegmentLanguage, <<>>, SegmentThreshold))
    /\ seg_i' = seg_i + 1
    /\ UNCHANGED <<detector, transcript, t_language, t_threshold, tpc, original_text, r_pii,
                   anonymized, result, t_result>>
    /\ UNCHANGED <<alignVars, jobVars, restVars, engineVars, callVars,
                 startVars, rateVars>>

\* transcribe_and_redact: return
TranscribeReturn ==
    /\ tpc = "segments"
    /\ seg_i = Len(result[1].segments)
    /\ t_result' = <<TranscribeResult(result[1], parsed)>>
    /\ tpc' = "returned"
    /\ UNCHANGED <<detector, transcript, t_language, t_threshold, original_text, r_pii,
                   anonymized, result, seg_i, parsed, seg_found, seg_status, analyze_calls>>
    /\ UNCHANGED <<alignVars, jobVars, restVars, engineVars, callVars,
                 startVars, rateVars>>

\* transcribe_and_redact(audio_path, language, score_threshold) is called
SegInit ==
    /\ detector \in Detectors
    /\ transcript \in Transcripts
    /\ t_language \in Languages
    /\ t_threshold \in Thresholds
    /\ tpc = "transcribing"
    /\ original_text = <<>>
    /\ r_pii = <<>>
    /\ anonymized = <<>>
    /\ result = <<>>
    /\ seg_i = 0
    /\ parsed = <<>>
    /\ seg_found = <<>>
    /\ seg_status = <<>>
    /\ analyze_calls = <<>>
    /\ t_result = <<>>
    /\ AlignIdle
    /\ JobIdle
    /\ RestIdle
    /\ EngineIdle
    /\ CallsIdle
    /\ StartIdle
    /\ RateIdle

SegNext ==
    \/ Transcribe
    \/ AnalyzeText
    \/ AnonymizeText
    \/ Correlate
    \/ ParseSegments
    \/ ParseSegment
    \/ TranscribeReturn

SpecSeg == SegInit /\ [][SegNext]_vars


(***************************************************************************)
(* Properties of the segment redactor                                      *)
(***************************************************************************)
\* the stripped text of segment i, which _redact_segment_text is given
SegText(i) == Strip(transcript.segments[i].text)

\* C1: no parsed segment contains the raw substring of an entity that analyze
\* returned on that segment's own stripped text.
C1_SegmentLeakFree ==
    \A i \in 1..Len(parsed) :
        \A k \in 1..Len(seg_found[i]) :
            ~Contains(parsed[i].text,
                      Slice(SegText(i), seg_found[i][k].start, seg_found[i][k].end))

SegmentStates ==
    /\ Len(parsed) = Len(seg_status)
    /\ \A i \in 1..Len(parsed) :
          /\ seg_status[i] \in {"analyze_raised", "anonymize_raised"} =>
                parsed[i].text = <<>>
          /\ seg_status[i] = "ok" =>
                /\ parsed[i].text = AnonymizerEngineAnonymize(SegText(i), seg_found[i])
                /\ seg_found[i] # <<>> => parsed[i].text # SegText(i)
          /\ seg_status[i] # "ok" /\ SegText(i) # <<>> => parsed[i].text # SegText(i)
    /\ tpc = "returned" =>
          /\ t_result[1].segments = parsed
          /\ Len(parsed) = Len(transcript.segments)

\* C2: a segment whose analyze or anonymize raised has the empty text, never its
\* raw text; the other segments carry their redaction; and once the segments are
\* being parsed the call never fails: it goes on to return.
C2_FailSafeSegments ==
    /\ []SegmentStates
    /\ [][tpc = "segments" => tpc' \in {"segments", "returned"}]_vars

\* the call returned with one segment whose redaction raised and another one
\* that was redacted
C2_Witness ==
    /\ tpc = "returned"
    /\ \E i, j \in 1..Len(parsed) :
          /\ seg_status[i] \in {"analyze_raised", "anonymize_raised"}
          /\ seg_status[j] = "ok"
          /\ seg_found[j] # <<>>

\* C3: every analyze call of one transcribe_and_redact call, the per-segment
\* ones included, gets the language and the score_threshold of that call.
C3_SegmentPolicy ==
    \A k \in 1..Len(analyze_calls) :
        /\ analyze_calls[k].language = t_language
        /\ analyze_calls[k].score_threshold = t_threshold


(***************************************************************************)
(* The job runners: BackgroundProcessor._process_call, process_call_task   *)
(***************************************************************************)
Runners == {"background", "celery"}
CallTypes == {"real", "ai_agent"}

\* TranscriberService.transcribe_and_redact(audio_path, language, score_threshold)
TranscribeAndRedact(d, tr, language, score_threshold, outcomes) ==
    TranscribeResult(Redact(d, tr, language, <<>>, score_threshold, TRUE),
                     ParseSegmentsOf(d, tr.segments, outcomes))

\* TranscriberService.transcribe_only(audio_path)
TranscribeOnly(d, tr, outcomes) ==
    [original_text |-> tr.text,
     redacted_text |-> tr.text,
     pii_findings  |-> <<>>,
     segments      |-> ParseSegmentsOf(d, tr.segments, outcomes),
     duration_sec  |-> DurationSec(tr.segments),
     duration_min  |-> DurationMin(DurationSec(tr.segments))]

\* dict.pop(key, None) / del dict[key]
Pop(dict, key) == [k \in (DOMAIN dict) \ {key} |-> dict[k]]

\* original_text = transcription.get("original_text"); if original_text: pop it
ClearOriginal(dict) ==
    IF "original_text" \in DOMAIN dict /\ dict.original_text # <<>>
    THEN Pop(dict, "original_text")
    ELSE dict

\* (mutant) the copy is stored as it is
SafeCopyKeepsAll(dict) == dict

\* transcription_safe = transcription.copy(); transcription_safe.pop("original_text", None)
SafeCopy(dict) == Pop(dict, "original_text")

\* what is left of the runner's dict when the run ends: the finally clause of
\* _process_call pops original_text
AtEnd(r, dict) ==
    IF r = "background" /\ dict # <<>> THEN <<Pop(dict[1], "original_text")>> ELSE dict

\* @celery_app.task(bind=True, max_retries=2)
MaxRetries == 2

\* the job the runner processes
JobId == "job"

\* (mutant) generating_pdf and sending_email are written the other way round
StatusOfSwapped(step) ==
    CASE step = "transcribe" -> "transcribing"
      [] step = "analyze"    -> "analyzing"
      [] step = "pdf"        -> "sending_email"
      [] step = "email"      -> "generating_pdf"

\* the status db.update_call writes when a step of the pipeline begins
StatusOf(step) ==
    CASE step = "transcribe" -> "transcribing"
      [] step = "analyze"    -> "analyzing"
      [] step = "pdf"        -> "generating_pdf"
      [] step = "email"      -> "sending_email"

\* (mutant) the error handler leaves the uploaded file alone
CleanedUpNever(r) == FALSE

\* the except clauses call secure_storage.delete_file_secure(file_path)
CleanedUp(r) == r \in Runners

\* the columns db.update_call(status="complete", ...) writes
CompleteColumns ==
    {"completed_at", "analysis_json", "stats_json", "coaching_pdf_path", "stats_pdf_path"}

\* the except clauses: db.update_call(job_id, status="error", error=...), then
\* delete_file_secure(file_path); _process_call ends after its finally clause,
\* process_call_task raises self.retry while retries < max_retries
JobFails ==
    /\ db_status' = "error"
    /\ db_columns' = db_columns \cup {"error"}
    /\ deleted' = (deleted \/ CleanedUp(runner))
    /\ upload' = (upload /\ ~CleanedUp(runner))
    /\ IF runner = "celery" /\ retries < MaxRetries
       THEN /\ jpc' = "start"
            /\ retries' = retries + 1
            /\ transcription' = <<>>
       ELSE /\ jpc' = "done"
            /\ retries' = retries
            /\ transcription' = AtEnd(runner, transcription)
    /\ active_jobs' = IF runner = "background" THEN active_jobs \ {JobId} ELSE active_jobs
    /\ UNCHANGED <<db_transcription, temp_path, temp_exists>>

\* db.update_call(job_id, status="transcribing")
JobStart ==
    /\ jpc = "start"
    /\ db_status' = StatusOf("transcribe")
    /\ jpc' = "decrypt"
    /\ deleted' = FALSE
    /\ temp_path' = "none"
    /\ UNCHANGED <<runner, call_type, audio, recognizer, transcription, db_transcription,
                   db_columns, decrypts, upload, temp_exists, retries, active_jobs>>
    /\ UNCHANGED <<alignVars, segVars, restVars, engineVars, callVars,
                 startVars, rateVars>>

\* read_file_secure(file_path) and the temporary file with the decrypted audio;
\* when that fails _process_call raises ValueError and process_call_task falls
\* back to file_path
JobDecrypt ==
    /\ jpc = "decrypt"
    /\ IF upload /\ decrypts
       THEN /\ temp_path' = "temp"
            /\ temp_exists' = TRUE
            /\ jpc' = "transcribe"
            /\ UNCHANGED <<transcription, db_status, db_transcription, db_columns, upload,
                           deleted, retries, active_jobs>>
       ELSE IF runner = "celery"
       THEN /\ temp_path' = "file_path"
            /\ jpc' = "transcribe"
            /\ UNCHANGED <<transcription, db_status, db_transcription, db_columns, upload,
                           temp_exists, deleted, retries, active_jobs>>
       ELSE JobFails
    /\ UNCHANGED <<runner, call_type, audio, recognizer, decrypts>>
    /\ UNCHANGED <<alignVars, segVars, restVars, engineVars, callVars,
                 startVars, rateVars>>

\* Step 1: transcribe_only or transcribe_and_redact, then the temporary file is
\* unlinked (if temp_file_path != file_path); db.update_call(status="analyzing")
JobTranscribe ==
    /\ jpc = "transcribe"
    /\ \/ JobFails
       \/ /\ temp_path = "temp" \/ upload
          /\ \E outcomes \in [1..Len(audio.segments) -> SegmentOutcomes] :
                transcription' =
                    IF call_type = "ai_agent"
                    THEN <<TranscribeOnly(recognizer, audio, outcomes)>>
                    ELSE <<ClearOriginal(TranscribeAndRedact(recognizer, audio,
                                                             DefaultLanguage,
                                                             DefaultThreshold, outcomes))>>
          /\ temp_exists' = IF temp_path # "file_path" THEN FALSE ELSE temp_exists
          /\ db_status' = StatusOf("analyze")
          /\ jpc' = "analyze"
          /\ UNCHANGED <<db_transcription, db_columns, upload, temp_path, deleted, retries,
                         active_jobs>>
    /\ UNCHANGED <<runner, call_type, audio, recognizer, decrypts>>
    /\ UNCHANGED <<alignVars, segVars, restVars, engineVars, callVars,
                 startVars, rateVars>>

\* Steps 2 and 3: analysis, stats, analytics, conversation intelligence, keywords,
\* score; db.update_call(status="generating_pdf")
JobAnalyze ==
    /\ jpc = "analyze"
    /\ \/ JobFails
       \/ /\ db_status' = StatusOf("pdf")
          /\ jpc' = "pdf"
          /\ UNCHANGED <<transcription, db_transcription, db_columns, upload, temp_path,
                         temp_exists, deleted, retries, active_jobs>>
    /\ UNCHANGED <<runner, call_type, audio, recognizer, decrypts>>
    /\ UNCHANGED <<alignVars, segVars, restVars, engineVars, callVars,
                 startVars, rateVars>>

\* Step 4: the PDFs; db.update_call(status="sending_email")
JobPdf ==
    /\ jpc = "pdf"
    /\ \/ JobFails
       \/ /\ db_status' = StatusOf("email")
          /\ jpc' = "email"
          /\ UNCHANGED <<transcription, db_transcription, db_columns, upload, temp_path,
                         temp_exists, deleted, retries, active_jobs>>
    /\ UNCHANGED <<runner, call_type, audio, recognizer, decrypts>>
    /\ UNCHANGED <<alignVars, segVars, restVars, engineVars, callVars,
                 startVars, rateVars>>

\* Step 5: the email
JobEmail ==
    /\ jpc = "email"
    /\ \/ JobFails
       \/ /\ jpc' = "save"
          /\ UNCHANGED <<transcription, db_status, db_transcription, db_columns, upload,
                         temp_path, temp_exists, deleted, retries, active_jobs>>
    /\ UNCHANGED <<runner, call_type, audio, recognizer, decrypts>>
    /\ UNCHANGED <<alignVars, segVars, restVars, engineVars, callVars,
                 startVars, rateVars>>

\* db.update_call(status="complete", transcription_json=transcription_safe, ...)
JobSave ==
    /\ jpc = "save"
    /\ db_transcription' = <<SafeCopy(transcription[1])>>
    /\ db_columns' = db_columns \cup CompleteColumns
    /\ transcription' = IF runner = "celery"
                        THEN <<Pop(transcription[1], "original_text")>>
                        ELSE transcription
    /\ db_status' = "complete"
    /\ jpc' = "cleanup"
    /\ UNCHANGED <<runner, call_type, audio, recognizer, decrypts, upload, temp_path,
                   temp_exists, deleted, retries, active_jobs>>
    /\ UNCHANGED <<alignVars, segVars, restVars, engineVars, callVars,
                 startVars, rateVars>>

\* secure_storage.delete_file_secure(file_path), which raises nothing, and the
\* run ends: the finally clause of _process_call discards the job id
JobCleanup ==
    /\ jpc = "cleanup"
    /\ jpc' = "done"
    /\ deleted' = TRUE
    /\ upload' = FALSE
    /\ transcription' = AtEnd(runner, transcription)
    /\ active_jobs' = IF runner = "background" THEN active_jobs \ {JobId} ELSE active_jobs
    /\ UNCHANGED <<runner, call_type, audio, recognizer, decrypts, db_status,
                   db_transcription, db_columns, temp_path, temp_exists, retries>>
    /\ UNCHANGED <<alignVars, segVars, restVars, engineVars, callVars,
                 startVars, rateVars>>

Audios ==
    {Transcription(t, cuts) :
        <<t, cuts>> \in {tc \in SeqsUpTo(TextChars, MaxAudioLen)
                                   \X SUBSET (1..(MaxAudioLen - 1)) :
                            tc[2] \subseteq 1..(Len(tc[1]) - 1)}}

JobInit ==
    /\ runner \in Runners
    /\ call_type \in CallTypes
    /\ audio \in Audios
    /\ recognizer \in Detectors
    /\ jpc = "start"
    /\ transcription = <<>>
    /\ db_status = "pending"
    /\ db_transcription = <<>>
    /\ db_columns = {}
    /\ decrypts \in BOOLEAN
    /\ upload = TRUE
    /\ temp_path = "none"
    /\ temp_exists = FALSE
    /\ deleted = FALSE
    /\ retries = 0
    /\ active_jobs = IF runner = "background" THEN {JobId} ELSE {}
    /\ AlignIdle
    /\ SegIdle
    /\ RestIdle
    /\ EngineIdle
    /\ CallsIdle
    /\ StartIdle
    /\ RateIdle

JobNext ==
    \/ JobStart
    \/ JobDecrypt
    \/ JobTranscribe
    \/ JobAnalyze
    \/ JobPdf
    \/ JobEmail
    \/ JobSave
    \/ JobCleanup

SpecJob == JobInit /\ [][JobNext]_vars

\* the thread of _process_call runs on: every call it makes returns or raises
SpecJobFair == JobInit /\ [][JobNext]_vars /\ WF_vars(JobNext)


(***************************************************************************)
(* The REST server: Server.redact, _get_audio_from_request, error handlers *)
(***************************************************************************)
\* request.form.get(name) or request.args.get(name, default)
Param(req, name, default) ==
    IF req.form[name] # <<>> /\ req.form[name][1] # "" THEN req.form[name][1]
    ELSE IF req.args[name] # <<>> THEN req.args[name][1]
    ELSE default

\* float(s) succeeds
IsFloat(s) == s \in {"0.0", "0.4", "0.9"}

\* float(s), in hundredths
Float(s) == IF s = "0.4" THEN 40 ELSE IF s = "0.9" THEN 90 ELSE 0

\* str.lower()
Lower(s) == IF s \in {"True", "TRUE"} THEN "true" ELSE s

\* entities_str.split(",")
Split(s) ==
    IF s = "PERSON,LOCATION" THEN <<"PERSON", "LOCATION">> ELSE <<s>>

\* language = request.form.get("language") or request.args.get("language", "en")
RequestLanguage(req) == Param(req, "language", "en")

\* entities = entities_str.split(",") if entities_str else None
RequestEntities(req) ==
    LET entities_str == IF req.form.entities # <<>> /\ req.form.entities[1] # ""
                        THEN req.form.entities
                        ELSE req.args.entities
    IN  IF entities_str # <<>> /\ entities_str[1] # ""
        THEN <<Range(Split(entities_str[1]))>>
        ELSE <<>>

\* the string handed to float()
RequestThreshold(req) == Param(req, "score_threshold", "0.0")

\* form.get("return_timestamps", "").lower() == "true" or the same of args
RequestTimestamps(req) ==
    \/ req.form.return_timestamps # <<>> /\ Lower(req.form.return_timestamps[1]) = "true"
    \/ req.args.return_timestamps # <<>> /\ Lower(req.args.return_timestamps[1]) = "true"

\* _get_audio_from_request: a temporary file of the upload or of the decoded
\* JSON field, None when the request has neither
GetAudioFromRequest(req) == IF req.audio \in {"file", "json"} THEN <<"tmp">> ELSE <<>>

\* the redact() of the package beside app.py takes audio_path, language and
\* entities only: the server's keyword arguments raise TypeError
AcceptsServerArguments(e) == e = "timestamps"

\* (mutant) the response without segments and without original_text
ResponseBodyStripped(res) ==
    [k \in (DOMAIN res) \ {"segments", "original_text"} |-> res[k]]

\* result.pop("segments", None); return jsonify(result)
ResponseBody(res) == [k \in (DOMAIN res) \ {"segments"} |-> res[k]]

\* errorhandler(InvalidParamError)
InvalidParam == <<[status |-> 422, body |-> [error |-> "Invalid parameter"]]>>

\* errorhandler(Exception)
ServerError == <<[status |-> 500, body |-> [error |-> "Internal server error"]]>>

\* redact(): the parameters are parsed and the audio is taken from the request
RestParse ==
    /\ rpc = "received"
    /\ request.path = "/redact"
    /\ IF ~IsFloat(RequestThreshold(request))
       THEN /\ response' = ServerError
            /\ rpc' = "responded"
            /\ UNCHANGED temp_file
       ELSE IF GetAudioFromRequest(request) = <<>>
       THEN /\ response' = InvalidParam
            /\ rpc' = "responded"
            /\ UNCHANGED temp_file
       ELSE /\ temp_file' = TRUE
            /\ rpc' = "redacting"
            /\ UNCHANGED response
    /\ UNCHANGED <<request, engine, heard, rest_detector>>
    /\ UNCHANGED <<alignVars, segVars, jobVars, engineVars, callVars,
                 startVars, rateVars>>

\* redact(): engine.redact, the response, and the temporary file unlinked
RestRedact ==
    /\ rpc = "redacting"
    /\ \E raised \in BOOLEAN :
          response' =
              IF raised \/ ~AcceptsServerArguments(engine)
              THEN ServerError
              ELSE <<[status |-> 200,
                      body |-> ResponseBody(Redact(rest_detector, heard,
                                                   RequestLanguage(request),
                                                   RequestEntities(request),
                                                   Float(RequestThreshold(request)),
                                                   RequestTimestamps(request)))]>>
    /\ \E unlinked \in BOOLEAN : temp_file' = ~unlinked
    /\ rpc' = "responded"
    /\ UNCHANGED <<request, engine, heard, rest_detector>>
    /\ UNCHANGED <<alignVars, segVars, jobVars, engineVars, callVars,
                 startVars, rateVars>>

\* transcribe(): the audio is taken from the request, engine.transcribe, the
\* response, and the temporary file unlinked
RestTranscribe ==
    /\ rpc = "received"
    /\ request.path = "/transcribe"
    /\ IF GetAudioFromRequest(request) = <<>>
       THEN /\ response' = InvalidParam
            /\ UNCHANGED temp_file
       ELSE /\ \E raised \in BOOLEAN :
                  response' =
                      IF raised
                      THEN ServerError
                      ELSE LET res == WhisperTranscribe(heard, FALSE)
                           IN  <<[status |-> 200,
                                  body |-> [text |-> Get(res, "text", <<>>),
                                            segments |-> Get(res, "segments", <<>>)]]>>
            /\ \E unlinked \in BOOLEAN : temp_file' = ~unlinked
    /\ rpc' = "responded"
    /\ UNCHANGED <<request, engine, heard, rest_detector>>
    /\ UNCHANGED <<alignVars, segVars, jobVars, engineVars, callVars,
                 startVars, rateVars>>

Forms ==
    [language : {<<>>, <<"es">>}, entities : {<<>>, <<"PERSON">>},
     score_threshold : {<<>>, <<"0.9">>, <<"abc">>},
     return_timestamps : {<<>>, <<"True">>}]

Args ==
    [language : {<<>>, <<"en">>}, entities : {<<>>, <<"PERSON,LOCATION">>},
     score_threshold : {<<>>, <<"0.4">>},
     return_timestamps : {<<>>, <<"true">>}]

ParamsSet(params) == Cardinality({name \in DOMAIN params : params[name] # <<>>})

\* POST /redact with up to MaxParams parameters, and POST /transcribe, which
\* reads none
Requests ==
    {req \in [path : {"/redact", "/transcribe"}, audio : {"file", "json", "none"},
              form : Forms, args : Args] :
        ParamsSet(req.form) + ParamsSet(req.args)
            <= IF req.path = "/redact" THEN MaxParams ELSE 0}

RestInit ==
    /\ request \in Requests
    /\ engine \in {"bundled", "timestamps"}
    /\ heard \in Audios
    /\ rest_detector \in Detectors
    /\ rpc = "received"
    /\ temp_file = FALSE
    /\ response = <<>>
    /\ AlignIdle
    /\ SegIdle
    /\ JobIdle
    /\ EngineIdle
    /\ CallsIdle
    /\ StartIdle
    /\ RateIdle

RestNext ==
    \/ RestParse
    \/ RestRedact
    \/ RestTranscribe

SpecRest == RestInit /\ [][RestNext]_vars

(***************************************************************************)
(* Properties of the job runners and of the REST server                    *)
(***************************************************************************)
LaterSteps == {"analyze", "pdf", "email", "save"}

\* C4: original_text is never persisted: the transcription_json handed to
\* db.update_call has no 'original_text' key, and on the real-call path the key is
\* gone from the transcription dict before any later pipeline step runs.
C4_OriginalRemoved ==
    /\ db_transcription # <<>> => "original_text" \notin DOMAIN db_transcription[1]
    /\ call_type = "real" /\ jpc \in LaterSteps
           => "original_text" \notin DOMAIN transcription[1]

\* C4 (as the code has it): the persisted transcription_json has no
\* 'original_text' key for both runners and both call types; on the real-call
\* path the later steps see the key only with the empty string of an empty
\* transcript, a non-empty original_text is removed before them.
C4_OriginalNotPersisted ==
    /\ db_transcription # <<>> => "original_text" \notin DOMAIN db_transcription[1]
    /\ call_type = "real" /\ jpc \in LaterSteps /\ "original_text" \in DOMAIN transcription[1]
           => transcription[1].original_text = <<>> /\ audio.text = <<>>
    /\ call_type = "real" /\ jpc \in LaterSteps /\ audio.text # <<>>
           => "original_text" \notin DOMAIN transcription[1]

C4_Witness ==
    /\ db_status = "complete"
    /\ db_transcription # <<>>
    /\ audio.text # <<>>
    /\ db_transcription[1].redacted_text # audio.text

\* the entities the job's transcriber detects in the full transcript
DetectedEntities ==
    IF call_type = "real"
    THEN Analyze(recognizer, audio.text, DefaultLanguage, <<>>, DefaultThreshold)
    ELSE <<>>

\* C5: the persisted transcription record (redacted_text, pii_findings entries,
\* segments) contains no raw substring original_text[e.start:e.end] of an entity e
\* detected in the full transcript.
C5_NoRawFragmentStored ==
    db_transcription # <<>> =>
        \A n \in 1..Len(DetectedEntities) :
            LET e      == DetectedEntities[n]
                raw    == Slice(audio.text, e.start, e.end)
                stored == db_transcription[1]
            IN  /\ ~Contains(stored.redacted_text, raw)
                /\ \A k \in 1..Len(stored.pii_findings) :
                       ~Contains(stored.pii_findings[k].text, raw)
                /\ \A i \in 1..Len(stored.segments) :
                       ~Contains(stored.segments[i].text, raw)

AttemptEnded == jpc = "done" \/ (jpc = "start" /\ retries > 0)

\* C24: when an attempt of process_call_task fails and fewer than max_retries
\* retries have been made the task is executed again; the retried attempt
\* transcribes the uploaded audio file at file_path that the first attempt used;
\* there are at most 3 attempts.
C24_RetryOnSameFile ==
    /\ [](retries <= MaxRetries)
    /\ [](runner = "celery" /\ retries > 0 /\ jpc \in {"decrypt", "transcribe"} => upload)
    /\ [][runner = "celery" /\ jpc # "done" /\ db_status' = "error" /\ retries < MaxRetries
             => jpc' = "start" /\ retries' = retries + 1]_vars

\* C25: whenever a processing run of either runner ends with status complete or
\* with status error, delete_file_secure has been called on the job's file_path.
C25_CleanupOnEveryOutcome ==
    AttemptEnded /\ db_status \in {"complete", "error"} => deleted

\* a run that failed after the temporary file was made has ended cleaned up
C25_Witness ==
    /\ jpc = "done"
    /\ db_status = "error"
    /\ temp_path = "temp"
    /\ deleted
    /\ ~upload

\* C26: once the temporary file with the decrypted audio has been created it is
\* unlinked before the run ends, also when transcription raises.
C26_TempFileRemoved == AttemptEnded => ~temp_exists

StatusRank(status) ==
    CASE status = "pending"        -> 0
      [] status = "transcribing"   -> 1
      [] status = "analyzing"      -> 2
      [] status = "generating_pdf" -> 3
      [] status = "sending_email"  -> 4
      [] status = "complete"       -> 5
      [] status = "error"          -> 6

\* a write of the status advances it by one, or moves it to error from a
\* non-terminal status
StatusAdvances ==
    db_status' # db_status =>
        \/ db_status' = "error" /\ db_status \notin {"complete", "error"}
        \/ /\ db_status' # "error" /\ db_status # "error"
           /\ StatusRank(db_status') = StatusRank(db_status) + 1

C21_ErrorMapping ==
    rpc = "responded" =>
        /\ request.audio = "none" =>
               /\ response[1].status = 422
               /\ "error" \in DOMAIN response[1].body
        /\ request.audio # "none" /\ response[1].status # 200 =>
               /\ response[1].status = 500
               /\ response[1].body = [error |-> "Internal server error"]

(***************************************************************************)
(* A session of calls on one AudioRedactor: analyze, anonymize,            *)
(* _extract_word_timestamps, redact                                        *)
(***************************************************************************)
\* the analyzers of a session: what they recognize and the score of a LOCATION
EngineAnalyzers ==
    {[person |-> "none", location |-> FALSE]}
    \cup [person : {"all"}, location : {TRUE}, location_score : {40, 85}]

EngineThresholds == {0, 50, 90}

\* the audios of a session: one segment, or one segment per character
EngineAudios ==
    {Transcription(t, cuts) :
        <<t, cuts>> \in {tc \in SeqsUpTo({"a", "b"}, MaxEngineTextLen)
                                   \X SUBSET (1..(MaxEngineTextLen - 1)) :
                            tc[2] \in {{}, 1..(Len(tc[1]) - 1)}}}

\* the language and entities arguments of the session's calls
Policies == {<<"en", <<>>>>, <<"es", <<{"PERSON"}>>>>}

\* a transcription whose segments in `drop` carry no 'words'
WithoutWords(tr, drop) ==
    [tr EXCEPT !.segments =
        [i \in 1..Len(tr.segments) |->
            IF i \in drop
            THEN [k \in (DOMAIN tr.segments[i]) \ {"words"} |-> tr.segments[i][k]]
            ELSE tr.segments[i]]]

\* the transcriptions handed to _extract_word_timestamps
ExtractInputs(tr) ==
    {tr, WithoutWords(tr, {1}), WithoutWords(tr, 1..Len(tr.segments)), [text |-> tr.text]}

\* redact: the arguments its analyze call hands to the analyzer
TopLevelCall(tr, language, entities, score_threshold, return_timestamps) ==
    AnalyzeCall(WhisperTranscribe(tr, return_timestamps).text, language, entities,
                score_threshold)

\* a call returns: it is the latest call of the session, and the first one if
\* there was none; no method assigns a field of the engine
Returned(call) ==
    /\ ncalls < MaxCalls
    /\ ncalls' = ncalls + 1
    /\ last_call' = <<call>>
    /\ first_call' = IF first_call = <<>> THEN <<call>> ELSE first_call
    /\ UNCHANGED <<self, recording>>
    /\ UNCHANGED <<alignVars, segVars, jobVars, restVars, callVars,
                 startVars, rateVars>>

\* AudioRedactor.analyze(text, language, entities, score_threshold)
EngineAnalyze ==
    \E policy \in Policies, score_threshold \in EngineThresholds :
      LET language == policy[1]
          entities == policy[2]
      IN
        Returned([op     |-> "analyze",
                  args   |-> [text |-> recording.text, language |-> language,
                              entities |-> entities,
                              score_threshold |-> score_threshold],
                  detector_call |-> AnalyzeCall(recording.text, language, entities,
                                                score_threshold),
                  result |-> Analyze(self.analyzer, recording.text, language,
                                     entities, score_threshold)])

\* AudioRedactor.anonymize(text, analyzer_results).text
EngineAnonymize ==
    \E analyzer_results \in {<<>>, AnalyzerEngineAnalyze(self.analyzer, recording.text,
                                                         "en", <<>>, 0)} :
        Returned([op     |-> "anonymize",
                  args   |-> [text |-> recording.text,
                              analyzer_results |-> analyzer_results],
                  result |-> Anonymize(recording.text, analyzer_results)])

\* AudioRedactor._extract_word_timestamps(transcription)
EngineExtract ==
    \E tr \in ExtractInputs(recording) :
        Returned([op     |-> "extract",
                  args   |-> [transcription |-> tr],
                  result |-> ExtractWordTimestamps(Get(tr, "segments", <<>>))])

\* AudioRedactor.redact(audio_path, language, entities, score_threshold,
\* return_timestamps)
EngineRedact ==
    \E policy \in Policies, score_threshold \in {0, 50}, return_timestamps \in BOOLEAN :
      LET language == policy[1]
          entities == policy[2]
      IN
        Returned([op     |-> "redact",
                  args   |-> [audio |-> recording, language |-> language,
                              entities |-> entities,
                              score_threshold |-> score_threshold,
                              return_timestamps |-> return_timestamps],
                  detector_call |-> TopLevelCall(recording, language, entities,
                                                 score_threshold, return_timestamps),
                  result |-> Redact(self.analyzer, recording, language, entities,
                                    score_threshold, return_timestamps)])

\* TranscriberService.transcribe_and_redact(audio_path, language, score_threshold)
EngineTranscribeAndRedact ==
    \E language \in Languages, score_threshold \in {DefaultThreshold} :
        Returned([op     |-> "transcribe_and_redact",
                  args   |-> [audio |-> recording, language |-> language,
                              score_threshold |-> score_threshold],
                  detector_call |-> TopLevelCall(recording, language, <<>>,
                                                 score_threshold, TRUE),
                  result |-> TranscribeAndRedact(
                                 self.analyzer, recording, language, score_threshold,
                                 [i \in 1..Len(recording.segments) |-> "ok"])])

EngineInit ==
    /\ self \in {NewRedactor(d) : d \in EngineAnalyzers}
    /\ recording \in EngineAudios
    /\ first_call = <<>>
    /\ last_call = <<>>
    /\ ncalls = 0
    /\ AlignIdle
    /\ SegIdle
    /\ JobIdle
    /\ RestIdle
    /\ CallsIdle
    /\ StartIdle
    /\ RateIdle

EngineNext ==
    \/ EngineAnalyze
    \/ EngineAnonymize
    \/ EngineExtract
    \/ EngineRedact
    \/ EngineTranscribeAndRedact

SpecEngine == EngineInit /\ [][EngineNext]_vars

(***************************************************************************)
(* Properties of the engine's calls                                        *)
(***************************************************************************)
\* the latest call is a call of op
Called(op) == last_call # <<>> /\ last_call[1].op = op

\* number of words of the segments before segment i
RECURSIVE WordsBefore(_, _)
WordsBefore(segments, i) ==
    IF i <= 1 THEN 0
    ELSE WordsBefore(segments, i - 1) + Len(Get(segments[i - 1], "words", <<>>))

Found(call) ==
    AnalyzerEngineAnalyze(self.analyzer, call.args.text, call.args.language,
                          call.args.entities, 0)

\* C12: analyze returns only (and all) the entities of a confidence of at least
\* score_threshold, with score_threshold 0.0 every entity the detector found; a
\* PERSON and a LOCATION of score 0.85 are both retained at 0.5 and both dropped
\* at 0.9.
C12_AnalyzeThreshold ==
    Called("analyze") =>
        LET call  == last_call[1]
            found == Found(call)
            t     == call.args.score_threshold
        IN  /\ call.result = SelectSeq(found, LAMBDA r : r.score >= t)
            /\ t = 0 => call.result = found
            /\ (\A k \in 1..Len(found) : found[k].score = 85) =>
                   /\ t = 50 => call.result = found
                   /\ t = 90 => call.result = <<>>

C12_Witness ==
    /\ Called("analyze")
    /\ last_call[1].args.score_threshold = 90
    /\ last_call[1].result = <<>>
    /\ \E i, k \in 1..Len(Found(last_call[1])) :
           /\ Found(last_call[1])[i].entity_type = "PERSON"
           /\ Found(last_call[1])[k].entity_type = "LOCATION"
           /\ Found(last_call[1])[i].score = 85
           /\ Found(last_call[1])[k].score = 85

\* the (type, start, end) tuples of a list of results
Tuples(rs) == {<<rs[k].entity_type, rs[k].start, rs[k].end>> : k \in 1..Len(rs)}

\* the first and the latest call are analyze calls that differ in nothing but
\* the threshold
SameButThreshold ==
    /\ first_call # <<>>
    /\ first_call[1].op = "analyze"
    /\ Called("analyze")
    /\ first_call[1].args.text = last_call[1].args.text
    /\ first_call[1].args.language = last_call[1].args.language
    /\ first_call[1].args.entities = last_call[1].args.entities

\* C13: threshold monotonicity: for thresholds t1 < t2 and the same text and
\* language, the (type, start, end) tuples analyze returns at t2 are a subset of
\* those it returns at t1.
C13_ThresholdMonotonic ==
    SameButThreshold =>
        LET a == first_call[1]
            b == last_call[1]
        IN  /\ a.args.score_threshold < b.args.score_threshold
                   => Tuples(b.result) \subseteq Tuples(a.result)
            /\ b.args.score_threshold < a.args.score_threshold
                   => Tuples(a.result) \subseteq Tuples(b.result)

C13_Witness ==
    /\ SameButThreshold
    /\ ncalls = MaxCalls
    /\ first_call[1].args.score_threshold < last_call[1].args.score_threshold
    /\ Tuples(last_call[1].result) # {}
    /\ Tuples(last_call[1].result) # Tuples(first_call[1].result)

\* C14: the engine hands the caller's text, language, entities filter and
\* score_threshold to the detector unmodified and returns the detector's result
\* unmodified, so with a filter every returned entity has a type of the filter;
\* for direct analyze calls and for the top-level call of redact and of
\* transcribe_and_redact.
C14_FilterPassThrough ==
    /\ Called("analyze") =>
           LET call == last_call[1]
           IN  /\ call.detector_call = call.args
               /\ call.result = AnalyzerEngineAnalyze(self.analyzer, call.args.text,
                                    call.args.language, call.args.entities,
                                    call.args.score_threshold)
               /\ call.args.entities # <<>> =>
                      \A k \in 1..Len(call.result) :
                          call.result[k].entity_type \in call.args.entities[1]
    /\ Called("redact") \/ Called("transcribe_and_redact") =>
           LET call     == last_call[1]
               entities == Get(call.args, "entities", <<>>)
               detected == AnalyzerEngineAnalyze(self.analyzer, call.args.audio.text,
                               call.args.language, entities, call.args.score_threshold)
           IN  /\ call.detector_call =
                      [text |-> call.args.audio.text, language |-> call.args.language,
                       entities |-> entities,
                       score_threshold |-> call.args.score_threshold]
               /\ Len(call.result.pii_findings) = Len(detected)
               /\ \A k \in 1..Len(detected) :
                      /\ call.result.pii_findings[k].entity_type = detected[k].entity_type
                      /\ call.result.pii_findings[k].text_start = detected[k].start
                      /\ call.result.pii_findings[k].text_end = detected[k].end
                      /\ call.result.pii_findings[k].score = detected[k].score
                      /\ entities # <<>> => detected[k].entity_type \in entities[1]

C14_Witness ==
    /\ Called("redact")
    /\ last_call[1].args.entities = <<{"PERSON"}>>
    /\ last_call[1].args.language = "es"
    /\ last_call[1].result.pii_findings # <<>>
    /\ \E k \in 1..Len(recording.text) : recording.text[k] = "b"
    /\ self.analyzer.location

\* the latest call repeats the first call of the session
Repeated ==
    /\ first_call # <<>>
    /\ last_call # <<>>
    /\ ncalls > 1
    /\ first_call[1].op = last_call[1].op
    /\ first_call[1].args = last_call[1].args

C16_AnonymizeNothing ==
    /\ Called("anonymize") /\ last_call[1].args.analyzer_results = <<>>
           => last_call[1].result = last_call[1].args.text
    /\ Called("redact") /\ last_call[1].result.pii_findings = <<>>
           => last_call[1].result.redacted_text = last_call[1].result.original_text

C16_Witness ==
    /\ Called("redact")
    /\ last_call[1].result.pii_findings = <<>>
    /\ last_call[1].result.original_text # <<>>
    /\ last_call[1].result.redacted_text = recording.text

(***************************************************************************)
(* Concurrent calls of AudioRedactor.redact on one engine, stage by stage  *)
(***************************************************************************)
\* (mutant) the correlation is run whether or not timestamps were requested
StageAfterAlwaysCorrelating(stage, return_timestamps) ==
    IF stage = "received" THEN "transcribing"
    ELSE IF stage = "transcribing" THEN "analyzing"
    ELSE IF stage = "analyzing" THEN "anonymizing"
    ELSE IF stage = "anonymizing" THEN "correlating"
    ELSE "complete"

\* redact: the stage that follows a stage that succeeded
StageAfter(stage, return_timestamps) ==
    IF stage = "received" THEN "transcribing"
    ELSE IF stage = "transcribing" THEN "analyzing"
    ELSE IF stage = "analyzing" THEN "anonymizing"
    ELSE IF stage = "anonymizing"
    THEN (IF return_timestamps THEN "correlating" ELSE "complete")
    ELSE "complete"

\* (mutant) the intermediate is kept on the engine, where every call sees it
AssignShared(locals, c, name, value) ==
    [k \in Calls |-> [locals[k] EXCEPT ![name] = <<value>>]]

\* redact: a local variable of call c is assigned
Assign(locals, c, name, value) == [locals EXCEPT ![c][name] = <<value>>]

\* (mutant) a failing stage makes redact return what it has so far
RaisedReturnsPartial(locals) ==
    <<[original_text |-> IF locals.original_text = <<>> THEN <<>>
                         ELSE locals.original_text[1]]>>

\* redact: a stage raises, the exception leaves redact and nothing is returned
Raised(locals) == <<>>

\* call c enters the stage after its stage; text is what the stage is handed
Enter(c, handed) ==
    LET next == StageAfter(cpc[c], c_args[c].return_timestamps)
    IN  /\ cpc' = [cpc EXCEPT ![c] = next]
        /\ c_log' = [c_log EXCEPT ![c] = Append(@, [stage |-> next, text |-> handed])]

\* the stage of call c raises
StageFails(c) ==
    /\ cpc' = [cpc EXCEPT ![c] = "failed"]
    /\ c_result' = [c_result EXCEPT ![c] = Raised(c_local[c])]
    /\ UNCHANGED <<c_local, c_log>>

\* redact is called: transcribe(audio_path, word_timestamps=return_timestamps)
CallStart(c) ==
    /\ cpc[c] = "received"
    /\ Enter(c, c_args[c].audio.text)
    /\ UNCHANGED <<redactor, c_args, c_local, c_result>>
    /\ UNCHANGED <<alignVars, segVars, jobVars, restVars, engineVars,
                 startVars, rateVars>>

\* transcribe returns (or raises): original_text = transcription["text"],
\* analyze(original_text, language, entities, score_threshold) is called
CallTranscribed(c) ==
    /\ cpc[c] = "transcribing"
    /\ \/ StageFails(c)
       \/ LET tr == WhisperTranscribe(c_args[c].audio, c_args[c].return_timestamps)
              assigned == Assign(Assign(c_local, c, "transcription", tr),
                                 c, "original_text", tr.text)
          IN  /\ c_local' = assigned
              /\ Enter(c, assigned[c].original_text[1])
              /\ UNCHANGED c_result
    /\ UNCHANGED <<redactor, c_args>>
    /\ UNCHANGED <<alignVars, segVars, jobVars, restVars, engineVars,
                 startVars, rateVars>>

\* analyze returns (or raises): anonymize(original_text, pii_results) is called
CallAnalyzed(c) ==
    /\ cpc[c] = "analyzing"
    /\ \/ StageFails(c)
       \/ /\ c_local' = Assign(c_local, c, "pii_results",
                               Analyze(redactor.analyzer, c_local[c].original_text[1],
                                       c_args[c].language, c_args[c].entities,
                                       c_args[c].score_threshold))
          /\ Enter(c, c_local[c].original_text[1])
          /\ UNCHANGED c_result
    /\ UNCHANGED <<redactor, c_args>>
    /\ UNCHANGED <<alignVars, segVars, jobVars, restVars, engineVars,
                 startVars, rateVars>>

\* anonymize returns (or raises): with return_timestamps the findings are still
\* to be mapped, without it the result is built and returned
CallAnonymized(c) ==
    /\ cpc[c] = "anonymizing"
    /\ \/ StageFails(c)
       \/ LET assigned == Assign(c_local, c, "anonymized",
                                 Anonymize(c_local[c].original_text[1],
                                           c_local[c].pii_results[1]))
          IN  /\ c_local' = assigned
              /\ Enter(c, assigned[c].original_text[1])
              /\ c_result' =
                     IF StageAfter(cpc[c], c_args[c].return_timestamps) = "complete"
                     THEN [c_result EXCEPT ![c] =
                              <<RedactResult(assigned[c].transcription[1],
                                             assigned[c].pii_results[1],
                                             assigned[c].anonymized[1], FALSE)>>]
                     ELSE c_result
    /\ UNCHANGED <<redactor, c_args>>
    /\ UNCHANGED <<alignVars, segVars, jobVars, restVars, engineVars,
                 startVars, rateVars>>

\* _extract_word_timestamps and _map_pii_to_timestamps: the result is returned
CallCorrelated(c) ==
    /\ cpc[c] = "correlating"
    /\ Enter(c, c_local[c].original_text[1])
    /\ c_result' = [c_result EXCEPT ![c] =
                       <<RedactResult(c_local[c].transcription[1],
                                      c_local[c].pii_results[1],
                                      c_local[c].anonymized[1], TRUE)>>]
    /\ UNCHANGED <<redactor, c_args, c_local>>
    /\ UNCHANGED <<alignVars, segVars, jobVars, restVars, engineVars,
                 startVars, rateVars>>

CallArgs ==
    [audio : {Transcription(t, {}) : t \in SeqsUpTo({"a", "b"}, MaxCallTextLen)},
     language : {"en"}, entities : {<<>>}, score_threshold : {0, 90},
     return_timestamps : BOOLEAN]

CallsInit ==
    /\ redactor \in {NewRedactor(d) : d \in Detectors}
    /\ c_args \in [Calls -> CallArgs]
    /\ cpc = [c \in Calls |-> "received"]
    /\ c_local = [c \in Calls |-> NoLocals]
    /\ c_result = [c \in Calls |-> <<>>]
    /\ c_log = [c \in Calls |-> <<>>]
    /\ AlignIdle
    /\ SegIdle
    /\ JobIdle
    /\ RestIdle
    /\ EngineIdle
    /\ StartIdle
    /\ RateIdle

CallsNext ==
    \E c \in Calls :
        \/ CallStart(c)
        \/ CallTranscribed(c)
        \/ CallAnalyzed(c)
        \/ CallAnonymized(c)
        \/ CallCorrelated(c)

SpecCalls == CallsInit /\ [][CallsNext]_vars

Stages(return_timestamps) ==
    <<"transcribing", "analyzing", "anonymizing">>
    \o (IF return_timestamps THEN <<"correlating">> ELSE <<>>)
    \o <<"complete">>

\* C18: the stages of one redact call run in the order transcribing, analyzing,
\* anonymizing, then correlating, then complete; analyze and anonymize are handed
\* the same full transcript text; correlating is entered exactly when timestamps
\* were requested; no stage is entered twice or skipped.
C18_StageOrder ==
    \A c \in Calls :
        LET expected == Stages(c_args[c].return_timestamps)
            log      == c_log[c]
        IN  /\ Len(log) <= Len(expected)
            /\ \A k \in 1..Len(log) : log[k].stage = expected[k]
            /\ \A k \in 1..Len(log) :
                   log[k].stage \in {"analyzing", "anonymizing"}
                       => log[k].text = c_args[c].audio.text
            /\ cpc[c] = "received" => log = <<>>
            /\ cpc[c] \notin {"received", "failed"} =>
                   log # <<>> /\ log[Len(log)].stage = cpc[c]
            /\ cpc[c] = "complete" => Len(log) = Len(expected)

C18_Witness ==
    \E c, o \in Calls :
        /\ cpc[c] = "complete" /\ cpc[o] = "complete"
        /\ c_args[c].return_timestamps /\ ~c_args[o].return_timestamps
        /\ Len(c_log[c]) = 5 /\ Len(c_log[o]) = 4

\* a result is there only after every stage succeeded, and then whole
AllOrNothing ==
    \A c \in Calls :
        /\ cpc[c] = "failed" => c_result[c] = <<>>
        /\ c_result[c] # <<>> =>
               /\ cpc[c] = "complete"
               /\ {"redacted_text", "pii_findings", "segments"}
                      \subseteq DOMAIN c_result[c][1]
               /\ c_local[c].transcription # <<>>
               /\ c_local[c].pii_results # <<>>
               /\ c_local[c].anonymized # <<>>

\* C19: if transcribe, analyze or anonymize fails during redact, the call ends in
\* failure and returns no result at all; a result is returned only after every
\* stage succeeded and has redacted_text, pii_findings and segments together.
C19_AllOrNothing ==
    /\ []AllOrNothing
    /\ [][\A c \in Calls : cpc[c] = "failed" => cpc'[c] = "failed"]_vars

C19_Witness ==
    \E c, o \in Calls :
        /\ cpc[c] = "failed"
        /\ c_log[c] # <<>>
        /\ c_log[c][Len(c_log[c])].stage = "anonymizing"
        /\ c_result[c] = <<>>
        /\ cpc[o] = "complete"
        /\ c_result[o] # <<>>

\* C20: concurrent redact calls on one engine do not interfere: under every
\* interleaving the result of a call is the result redact gives for its
\* arguments when run alone, and the fields of the engine are not written.
C20_NoInterference ==
    /\ \A c \in Calls :
           cpc[c] = "complete" =>
               c_result[c] = <<Redact(redactor.analyzer, c_args[c].audio,
                                      c_args[c].language, c_args[c].entities,
                                      c_args[c].score_threshold,
                                      c_args[c].return_timestamps)>>
    /\ redactor = NewRedactor(redactor.analyzer)

C20_Witness ==
    \E c, o \in Calls :
        /\ cpc[c] = "complete"
        /\ c_result[c][1].pii_findings # <<>>
        /\ cpc[o] = "anonymizing"
        /\ c_local[o].original_text # c_local[c].original_text
        /\ c_local[o].pii_results # c_local[c].pii_results


(***************************************************************************)
(* Start requests: api_analyze, BackgroundProcessor.process_call_async     *)
(***************************************************************************)
\* api_analyze: db.get_call(job_id)
ReqRead(r) ==
    /\ req_pc[r] = "idle"
    /\ req_seen' = [req_seen EXCEPT ![r] = job_status]
    /\ req_pc' = [req_pc EXCEPT ![r] = "read"]
    /\ UNCHANGED <<use_celery, job_status, req_active, run_pc>>
    /\ UNCHANGED <<alignVars, segVars, jobVars, restVars, engineVars, callVars, rateVars>>

\* api_analyze: 400 unless the status read is "pending"; then
\* process_call_task.delay(...), or a new BackgroundProcessor() whose
\* process_call_async adds the job id to its _active_jobs and starts the thread
ReqStart(r) ==
    /\ req_pc[r] = "read"
    /\ IF req_seen[r] # "pending"
       THEN /\ req_pc' = [req_pc EXCEPT ![r] = "rejected"]
            /\ UNCHANGED <<req_active, run_pc>>
       ELSE IF use_celery
       THEN /\ run_pc' = [run_pc EXCEPT ![r] = "started"]
            /\ req_pc' = [req_pc EXCEPT ![r] = "queueing"]
            /\ UNCHANGED req_active
       ELSE IF JobId \in req_active[r]
       THEN /\ req_pc' = [req_pc EXCEPT ![r] = "responded"]
            /\ UNCHANGED <<req_active, run_pc>>
       ELSE /\ req_active' = [req_active EXCEPT ![r] = @ \cup {JobId}]
            /\ run_pc' = [run_pc EXCEPT ![r] = "started"]
            /\ req_pc' = [req_pc EXCEPT ![r] = "responded"]
    /\ UNCHANGED <<use_celery, job_status, req_seen>>
    /\ UNCHANGED <<alignVars, segVars, jobVars, restVars, engineVars, callVars, rateVars>>

\* api_analyze with Celery: db.update_call(job_id, status="queued")
ReqQueued(r) ==
    /\ req_pc[r] = "queueing"
    /\ job_status' = "queued"
    /\ req_pc' = [req_pc EXCEPT ![r] = "responded"]
    /\ UNCHANGED <<use_celery, req_seen, req_active, run_pc>>
    /\ UNCHANGED <<alignVars, segVars, jobVars, restVars, engineVars, callVars, rateVars>>

\* the run a request started writes its first status:
\* db.update_call(job_id, status="transcribing")
RunBegin(r) ==
    /\ run_pc[r] = "started"
    /\ job_status' = StatusOf("transcribe")
    /\ run_pc' = [run_pc EXCEPT ![r] = "running"]
    /\ UNCHANGED <<use_celery, req_pc, req_seen, req_active>>
    /\ UNCHANGED <<alignVars, segVars, jobVars, restVars, engineVars, callVars, rateVars>>

\* the run ends: status complete or error; the finally clause of _process_call
\* discards the job id from the _active_jobs of its processor
RunEnd(r) ==
    /\ run_pc[r] = "running"
    /\ \E status \in {"complete", "error"} : job_status' = status
    /\ run_pc' = [run_pc EXCEPT ![r] = "ended"]
    /\ req_active' = [req_active EXCEPT ![r] = IF use_celery THEN @ ELSE @ \ {JobId}]
    /\ UNCHANGED <<use_celery, req_pc, req_seen>>
    /\ UNCHANGED <<alignVars, segVars, jobVars, restVars, engineVars, callVars, rateVars>>

StartInit ==
    /\ use_celery \in BOOLEAN
    /\ job_status = "pending"
    /\ req_pc = [r \in Requesters |-> "idle"]
    /\ req_seen = [r \in Requesters |-> "none"]
    /\ req_active = [r \in Requesters |-> {}]
    /\ run_pc = [r \in Requesters |-> "none"]
    /\ AlignIdle
    /\ SegIdle
    /\ JobIdle
    /\ RestIdle
    /\ EngineIdle
    /\ CallsIdle
    /\ RateIdle

StartNext ==
    \E r \in Requesters :
        \/ ReqRead(r)
        \/ ReqStart(r)
        \/ ReqQueued(r)
        \/ RunBegin(r)
        \/ RunEnd(r)

SpecStart == StartInit /\ [][StartNext]_vars

\* the processing runs that have been started for the job
RunsStarted == {r \in Requesters : run_pc[r] # "none"}

\* C23: at most one processing run per job: a start request made while the job
\* is already processing or complete starts no other run, so under every
\* interleaving of start requests for the job at most one processing thread or
\* task is ever started.
C23_OneRunPerJob == Cardinality(RunsStarted) <= 1


(***************************************************************************)
(* The rate limiter: check_rate_limit                                      *)
(***************************************************************************)
RATE_LIMIT_WINDOW == 300
RATE_LIMIT_MAX_REQUESTS == 5

\* [t for t in _rate_limit_store[key] if now - t < RATE_LIMIT_WINDOW]
Cleaned(entries, t_now) ==
    SelectSeq(entries, LAMBDA t : t_now - t < RATE_LIMIT_WINDOW)

\* (mutant) the limit is compared with >
LimitedAbove(entries) == Len(entries) > RATE_LIMIT_MAX_REQUESTS

\* len(_rate_limit_store[key]) >= RATE_LIMIT_MAX_REQUESTS
Limited(entries) == Len(entries) >= RATE_LIMIT_MAX_REQUESTS

\* check_rate_limit(key) at time t_now: the store afterwards and the value returned
CheckRateLimit(store, key, t_now) ==
    LET cleaned == Cleaned(store[key], t_now)
    IN  IF Limited(cleaned)
        THEN [store |-> [store EXCEPT ![key] = cleaned], returned |-> FALSE]
        ELSE [store |-> [store EXCEPT ![key] = Append(cleaned, t_now)], returned |-> TRUE]

\* one call of check_rate_limit, some time after the call before it
RateCheck ==
    /\ rate_calls < MaxRateCalls
    /\ \E key \in RateKeys, passed \in {0, 150, 300} :
          LET t_now == now + passed
              call  == CheckRateLimit(rate_store, key, t_now)
          IN  /\ now' = t_now
              /\ rate_store' = call.store
              /\ accepted' = IF call.returned
                             THEN [accepted EXCEPT ![key] = Append(@, t_now)]
                             ELSE accepted
              /\ last_check' = <<[key |-> key, returned |-> call.returned]>>
    /\ rate_calls' = rate_calls + 1
    /\ UNCHANGED <<alignVars, segVars, jobVars, restVars, engineVars, callVars, startVars>>

RateInit ==
    /\ now = 0
    /\ rate_store = [k \in RateKeys |-> <<>>]
    /\ accepted = [k \in RateKeys |-> <<>>]
    /\ rate_calls = 0
    /\ last_check = <<>>
    /\ AlignIdle
    /\ SegIdle
    /\ JobIdle
    /\ RestIdle
    /\ EngineIdle
    /\ CallsIdle
    /\ StartIdle

RateNext == RateCheck

SpecRate == RateInit /\ [][RateNext]_vars

\* the accepted calls of key k that lie inside the window that ends at time t
InWindow(k, t) == {i \in 1..Len(accepted[k]) : t - accepted[k][i] < RATE_LIMIT_WINDOW}

\* no RATE_LIMIT_MAX_REQUESTS + 1 accepted calls of a key within one window
WindowHolds ==
    \A k \in RateKeys :
        \A i \in 1..Len(accepted[k]) :
            i + RATE_LIMIT_MAX_REQUESTS <= Len(accepted[k]) =>
                accepted[k][i + RATE_LIMIT_MAX_REQUESTS] - accepted[k][i]
                    >= RATE_LIMIT_WINDOW

\* what one call does, in terms of the calls accepted before it
RateStep ==
    LET k == last_check'[1].key
    IN  /\ last_check'[1].returned <=>
               Cardinality(InWindow(k, now')) < RATE_LIMIT_MAX_REQUESTS
        /\ ~last_check'[1].returned =>
               /\ now' \notin Range(rate_store'[k]) \ Range(rate_store[k])
               /\ Len(rate_store'[k]) <= Len(rate_store[k])
        /\ last_check'[1].returned =>
               rate_store'[k][Len(rate_store'[k])] = now'
        /\ \A other \in RateKeys \ {k} :
               /\ rate_store'[other] = rate_store[other]
               /\ accepted'[other] = accepted[other]

====
